---------------------------- MODULE Spec2Model ----------------------------
(***************************************************************************)
(* Model of the research-assistant analysis engine:                        *)
(*   src/src/ml/critic.py    CriticalAnalyzer (rule-based critique)        *)
(*   src/src/ml/analyzer.py  DocumentAnalyzer.assess_difficulty            *)
(* Texts are strings; a character is a string of length 1.  Positions are  *)
(* 0-based offsets as in Python: the slice t[a:b] is SubSeq(t, a+1, b).    *)
(***************************************************************************)
EXTENDS Integers, Sequences, FiniteSets, TLC

(***************************************************************************)
(* Characters and the str methods the engine uses.                         *)
(***************************************************************************)
UpperChars == "ABCDEFGHIJKLMNOPQRSTUVWXYZ"
LowerChars == "abcdefghijklmnopqrstuvwxyz"
DigitChars == "0123456789"

CharSet(s) == {SubSeq(s, i, i) : i \in 1..Len(s)}

UpperSet == CharSet(UpperChars)
LowerSet == CharSet(LowerChars)
DigitSet == CharSet(DigitChars)
SpaceSet == {" ", "\t", "\n"}
WordSet  == UpperSet \cup LowerSet \cup DigitSet \cup {"_"}

Max(a, b) == IF a >= b THEN a ELSE b
Min(a, b) == IF a <= b THEN a ELSE b

\* str.lower() on one character
LowerMap == [c \in UpperSet |->
               LET i == CHOOSE k \in 1..Len(UpperChars) : SubSeq(UpperChars, k, k) = c
               IN  SubSeq(LowerChars, i, i)]

LowerChar(c) == IF c \in UpperSet THEN LowerMap[c] ELSE c

\* the character at 0-based offset i of t
At(t, i) == SubSeq(t, i + 1, i + 1)

\* the Python slice t[a:b], for 0 <= a and b <= len(t)
Slice(t, a, b) == SubSeq(t, a + 1, b)

\* str.lower() of t[a:b], by halves
RECURSIVE LowerIn(_, _, _)
LowerIn(t, a, b) ==
    IF b <= a THEN ""
    ELSE IF b = a + 1 THEN LowerChar(At(t, a))
    ELSE LET mid == (a + b) \div 2 IN LowerIn(t, a, mid) \o LowerIn(t, mid, b)

\* str.lower()
Lower(t) == LowerIn(t, 0, Len(t))

\* the first offset in i..len(t) that is len(t) or holds no whitespace
SkipSpaces(t, i) ==
    CHOOSE j \in i..Len(t) :
        /\ j = Len(t) \/ At(t, j) \notin SpaceSet
        /\ \A k \in i..(j - 1) : At(t, k) \in SpaceSet

\* the last offset in lo..j that is lo or follows a non-whitespace character
SkipSpacesBack(t, lo, j) ==
    CHOOSE b \in lo..j :
        /\ b = lo \/ At(t, b - 1) \notin SpaceSet
        /\ \A k \in b..(j - 1) : At(t, k) \in SpaceSet

\* str.strip()
Strip(t) ==
    LET a == SkipSpaces(t, 0)
        b == SkipSpacesBack(t, a, Len(t))
    IN  Slice(t, a, b)

\* the offset of the first '.' at or after i, or len(t)
NextDot(t, i) ==
    CHOOSE j \in i..Len(t) :
        /\ j = Len(t) \/ At(t, j) = "."
        /\ \A k \in i..(j - 1) : At(t, k) # "."

\* str.split('.'): every '.' separates, empty pieces are kept, "" gives [""]
RECURSIVE SplitDotFrom(_, _)
SplitDotFrom(t, i) ==
    LET d == NextDot(t, i)
    IN  IF d >= Len(t) THEN <<Slice(t, i, Len(t))>>
        ELSE <<Slice(t, i, d)>> \o SplitDotFrom(t, d + 1)

SplitDot(t) == SplitDotFrom(t, 0)

\* the end of the run of non-whitespace that starts at i
SkipWord(t, i) ==
    CHOOSE j \in i..Len(t) :
        /\ j = Len(t) \/ At(t, j) \in SpaceSet
        /\ \A k \in i..(j - 1) : At(t, k) \notin SpaceSet

\* the start of the run of non-whitespace that holds offset i
WordStart(t, i) ==
    CHOOSE j \in 0..i :
        /\ j = 0 \/ At(t, j - 1) \in SpaceSet
        /\ \A k \in j..(i - 1) : At(t, k) \notin SpaceSet

\* the words of t[a:b], a and b not inside a word: the first word, then the
\* two halves of the rest, cut between words
RECURSIVE SplitWordsIn(_, _, _)
SplitWordsIn(t, a, b) ==
    LET s   == SkipSpaces(t, a)
        e   == SkipWord(t, s)
        mid == (e + b) \div 2
        m   == IF SkipWord(t, mid) < b THEN SkipWord(t, mid) ELSE WordStart(t, mid)
    IN  IF s >= b THEN <<>>
        ELSE IF e >= b THEN <<Slice(t, s, e)>>
        ELSE <<Slice(t, s, e)>> \o SplitWordsIn(t, e, Max(e, m)) \o SplitWordsIn(t, Max(e, m), b)

\* str.split(): the maximal runs of non-whitespace in order, no empty pieces
SplitWords(t) == SplitWordsIn(t, 0, Len(t))

\* sub occurs in t at offset i
OccursAt(t, sub, i) == i + Len(sub) <= Len(t) /\ Slice(t, i, i + Len(sub)) = sub

\* the Python test `sub in t`
Contains(t, sub) == \E i \in 0..Len(t) : OccursAt(t, sub, i)

\* str.find(sub, i): the first occurrence at or after i, or -1
Find(t, sub, i) ==
    IF \E j \in i..Len(t) : OccursAt(t, sub, j)
    THEN CHOOSE j \in i..Len(t) :
             OccursAt(t, sub, j) /\ \A k \in i..(j - 1) : ~OccursAt(t, sub, k)
    ELSE -1

\* str.count(sub): non-overlapping occurrences, scanned left to right
RECURSIVE CountFrom(_, _, _)
CountFrom(t, sub, i) ==
    LET j == Find(t, sub, i)
    IN  IF j < 0 THEN 0 ELSE 1 + CountFrom(t, sub, j + Max(1, Len(sub)))

Count(t, sub) == CountFrom(t, sub, 0)

\* ' '.join(parts)
RECURSIVE JoinSpace(_)
JoinSpace(parts) ==
    IF Len(parts) = 0 THEN ""
    ELSE IF Len(parts) = 1 THEN parts[1]
    ELSE parts[1] \o " " \o JoinSpace(Tail(parts))

\* the Python slice xs[:n] of a list
Take(xs, n) == SubSeq(xs, 1, IF Len(xs) < n THEN Len(xs) ELSE n)

(***************************************************************************)
(* Regular expressions (module re).  A pattern is a syntax tree; Ends      *)
(* gives the offsets at which a match starting at offset i can end, in the *)
(* order in which the backtracking matcher tries them, so the head is the  *)
(* end of the match that re reports.  ic is the re.IGNORECASE flag.        *)
(***************************************************************************)
Lit(s)      == [k |-> "lit", s |-> s]            \* literal text
Cls(c)      == [k |-> "cls", c |-> c]            \* \s \w \d or .
Plus(c)     == [k |-> "plus", c |-> c]           \* greedy c+
Star(c)     == [k |-> "star", c |-> c]           \* greedy c*
Rep(c, n)   == [k |-> "rep", c |-> c, n |-> n]   \* c{n}
Opt(r)      == [k |-> "opt", r |-> r]            \* greedy r?
Alt(rs)     == [k |-> "alt", rs |-> rs]          \* r1|r2|...
Cat(rs)     == [k |-> "cat", rs |-> rs]          \* r1 r2 ...
NotAhead(r) == [k |-> "nla", r |-> r]            \* (?!r)

InClass(c, ch) ==
    CASE c = "s" -> ch \in SpaceSet
      [] c = "w" -> ch \in WordSet
      [] c = "d" -> ch \in DigitSet
      [] OTHER   -> ch # "\n"                    \* "." matches all but newline

\* the length of the run of characters of class c that starts at offset i
RunLen(c, t, i) ==
    LET j == CHOOSE e \in i..Len(t) :
                 /\ e = Len(t) \/ ~InClass(c, At(t, e))
                 /\ \A k \in i..(e - 1) : InClass(c, At(t, k))
    IN  j - i

LitAt(s, t, i, ic) ==
    /\ i + Len(s) <= Len(t)
    /\ IF ic THEN \A j \in 0..(Len(s) - 1) : LowerChar(At(t, i + j)) = LowerChar(At(s, j))
             ELSE Slice(t, i, i + Len(s)) = s

RECURSIVE Ends(_, _, _, _)
RECURSIVE EndsSeq(_, _, _, _, _, _)
RECURSIVE AltEnds(_, _, _, _, _)
RECURSIVE CatEnds(_, _, _, _, _)

Ends(re, t, i, ic) ==
    CASE re.k = "lit"  -> IF LitAt(re.s, t, i, ic) THEN <<i + Len(re.s)>> ELSE <<>>
      [] re.k = "cls"  -> IF i < Len(t) /\ InClass(re.c, At(t, i)) THEN <<i + 1>> ELSE <<>>
      [] re.k = "plus" -> LET n == RunLen(re.c, t, i) IN [j \in 1..n |-> i + n + 1 - j]
      [] re.k = "star" -> LET n == RunLen(re.c, t, i) IN [j \in 1..(n + 1) |-> i + n + 1 - j]
      [] re.k = "rep"  -> IF RunLen(re.c, t, i) >= re.n THEN <<i + re.n>> ELSE <<>>
      [] re.k = "opt"  -> Ends(re.r, t, i, ic) \o <<i>>
      [] re.k = "alt"  -> AltEnds(re.rs, 1, t, i, ic)
      [] re.k = "cat"  -> CatEnds(re.rs, 1, t, <<i>>, ic)
      [] re.k = "nla"  -> IF Ends(re.r, t, i, ic) = <<>> THEN <<i>> ELSE <<>>

\* the ends of re from each of the offsets starts[lo..hi], in order (by halves)
EndsSeq(re, t, starts, lo, hi, ic) ==
    IF hi < lo THEN <<>>
    ELSE IF hi = lo THEN Ends(re, t, starts[lo], ic)
    ELSE LET mid == (lo + hi) \div 2
         IN  EndsSeq(re, t, starts, lo, mid, ic) \o EndsSeq(re, t, starts, mid + 1, hi, ic)

AltEnds(rs, j, t, i, ic) ==
    IF j > Len(rs) THEN <<>>
    ELSE Ends(rs[j], t, i, ic) \o AltEnds(rs, j + 1, t, i, ic)

CatEnds(rs, j, t, starts, ic) ==
    IF j > Len(rs) \/ starts = <<>> THEN starts
    ELSE CatEnds(rs, j + 1, t, EndsSeq(rs[j], t, starts, 1, Len(starts), ic), ic)

NoMatch == [s |-> -1, e |-> -1]

\* a match of re starts at offset i
MatchAt(re, t, i, ic) == Ends(re, t, i, ic) # <<>>

\* the leftmost match at or after offset `from`: [s, e] as match.start(), match.end()
SearchFrom(re, t, from, ic) ==
    LET hits == {i \in from..Len(t) : MatchAt(re, t, i, ic)}
    IN  IF hits = {} THEN NoMatch
        ELSE LET first == CHOOSE i \in hits : \A k \in hits : i <= k
             IN  [s |-> first, e |-> Ends(re, t, first, ic)[1]]

\* re.search(pattern, t) is not None
Search(re, t, ic) == \E i \in 0..Len(t) : MatchAt(re, t, i, ic)

\* re.finditer / re.findall: the non-overlapping matches, left to right (after
\* an empty match the scan resumes one character further)
RECURSIVE FindIterFrom(_, _, _, _)
FindIterFrom(re, t, from, ic) ==
    LET m == SearchFrom(re, t, from, ic)
    IN  IF m = NoMatch THEN <<>>
        ELSE <<m>> \o FindIterFrom(re, t, IF m.e > m.s THEN m.e ELSE m.e + 1, ic)

FindIter(re, t, ic) == FindIterFrom(re, t, 0, ic)

(***************************************************************************)
(* CriticalAnalyzer: the static pattern tables.                            *)
(***************************************************************************)
CLAIM_PATTERNS == <<
    Cat(<<Lit("will"), Plus("s"), Alt(<<Lit("definitely"), Lit("certainly"), Lit("surely")>>),
          Plus("s"), Plus("w")>>),
    Cat(<<Alt(<<Lit("always"), Lit("never"), Lit("all"), Lit("every"), Lit("none")>>),
          Plus("s"), Plus("w")>>),
    Cat(<<Lit("studies show"), NotAhead(Cat(<<Plus("s"), Lit("(")>>))>>),
    Cat(<<Lit("expert"), Opt(Lit("s")), Lit(" "),
          Alt(<<Lit("say"), Lit("believe"), Lit("think")>>),
          NotAhead(Cat(<<Plus("s"), Lit("(")>>))>>),
    Cat(<<Lit("it is "), Alt(<<Lit("proven"), Lit("obvious"), Lit("clear")>>), Lit(" that")>>),
    Cat(<<Plus("d"), Lit("%"), NotAhead(Cat(<<Plus("s"), Lit("(")>>))>>),
    Lit("everyone knows that"),
    Cat(<<Lit("clearly"), Plus("s"), Plus("w")>>),
    Cat(<<Lit("without "), Opt(Lit("a ")), Lit("doubt")>>)
>>

\* the dict keeps its declaration order
FALLACY_PATTERNS == <<
    [name |-> "Appeal to Authority",
     re   |-> Cat(<<Alt(<<Lit("famous"), Lit("renowned"), Lit("expert")>>), Plus("s"), Plus("w"),
                    Plus("s"), Alt(<<Lit("says"), Lit("believes")>>)>>)],
    [name |-> "False Dichotomy",
     re   |-> Cat(<<Alt(<<Lit("either"), Lit("only two")>>), Plus("s"),
                    Alt(<<Cat(<<Lit("option"), Opt(Lit("s"))>>),
                          Cat(<<Lit("choice"), Opt(Lit("s"))>>),
                          Cat(<<Lit("way"), Opt(Lit("s"))>>)>>)>>)],
    [name |-> "Slippery Slope",
     re   |-> Cat(<<Lit("if"), Plus("s"), Plus("w"), Star("."), Lit("then"), Plus("s"), Plus("w"),
                    Star("."), Lit("and"), Plus("s"), Lit("then")>>)],
    [name |-> "Correlation vs Causation",
     re   |-> Cat(<<Lit("because"), Plus("s"), Plus("w"), Star("."), Lit("therefore")>>)],
    [name |-> "Hasty Generalization",
     re   |-> Cat(<<Alt(<<Lit("all"), Lit("every"), Lit("always")>>), Plus("s"), Plus("w"),
                    Plus("s"), Alt(<<Lit("are"), Lit("do"), Lit("have")>>)>>)]
>>

\* r'\(\d{4}\)|\[\d+\]'
CitationRe ==
    Alt(<<Cat(<<Lit("("), Rep("d", 4), Lit(")")>>), Cat(<<Lit("["), Plus("d"), Lit("]")>>)>>)

\* r'\(\d{4}\)|\[\d+\]|et al\.'
CitationCountRe ==
    Alt(<<Cat(<<Lit("("), Rep("d", 4), Lit(")")>>), Cat(<<Lit("["), Plus("d"), Lit("]")>>),
          Lit("et al.")>>)

\* r'many|some|few|several'
VagueRe == Alt(<<Lit("many"), Lit("some"), Lit("few"), Lit("several")>>)

MinSentenceLen == 20     \* sentences shorter than this are skipped
ClaimChars     == 150    \* characters of a sentence kept in a claim
MaxClaims      == 5
MaxPerFallacy  == 2
ContextBefore  == 50
ContextAfter   == 100
MaxGaps        == 5

NoCitationsGap == "Research mentioned but no citations provided"
VagueGap       == "Vague quantifiers used without specific data"

(***************************************************************************)
(* CriticalAnalyzer.identify_unsupported_claims                            *)
(***************************************************************************)
\* (the sentence kept whole, whatever its length)
ClaimOfUncut(sentence) == sentence

\* the claim extracted from a (stripped) sentence
ClaimOf(sentence) ==
    IF Len(sentence) > ClaimChars THEN Slice(sentence, 0, ClaimChars) \o "..." ELSE sentence

\* (the loop without its break)
RECURSIVE SentenceClaimsNoBreak(_, _)
SentenceClaimsNoBreak(sentence, j) ==
    IF j > Len(CLAIM_PATTERNS) THEN <<>>
    ELSE (IF Search(CLAIM_PATTERNS[j], sentence, TRUE) THEN <<ClaimOf(sentence)>> ELSE <<>>)
           \o SentenceClaimsNoBreak(sentence, j + 1)

\* the inner loop over CLAIM_PATTERNS from the j-th on: the first pattern found
\* appends the claim and breaks
RECURSIVE SentenceClaims(_, _)
SentenceClaims(sentence, j) ==
    IF j > Len(CLAIM_PATTERNS) THEN <<>>
    ELSE IF Search(CLAIM_PATTERNS[j], sentence, TRUE) THEN <<ClaimOf(sentence)>>
    ELSE SentenceClaims(sentence, j + 1)

\* the outer loop over the sentences from the j-th on
RECURSIVE ClaimsFrom(_, _)
ClaimsFrom(sentences, j) ==
    IF j > Len(sentences) THEN <<>>
    ELSE LET sentence == Strip(sentences[j])
         IN  IF Len(sentence) < MinSentenceLen THEN ClaimsFrom(sentences, j + 1)
             ELSE SentenceClaims(sentence, 1) \o ClaimsFrom(sentences, j + 1)

identify_unsupported_claims(text) == Take(ClaimsFrom(SplitDot(text), 1), MaxClaims)

(***************************************************************************)
(* CriticalAnalyzer.identify_logical_gaps                                  *)
(***************************************************************************)
\* (the 100 characters counted from the start of the match, not from its end)
FallacyFindingFromStart(name, text, m) ==
    LET context_start == Max(0, m.s - ContextBefore)
        context_end   == Min(Len(text), m.s + ContextAfter)
        context       == Strip(Slice(text, context_start, context_end))
    IN  "Possible " \o name \o ": '" \o context \o "...'"

\* the finding for one match of a fallacy pattern
FallacyFinding(name, text, m) ==
    LET context_start == Max(0, m.s - ContextBefore)
        context_end   == Min(Len(text), m.e + ContextAfter)
        context       == Strip(Slice(text, context_start, context_end))
    IN  "Possible " \o name \o ": '" \o context \o "...'"

\* (a finding for every match of the fallacy)
FallacyFindingsAll(f, text) ==
    LET matches == FindIter(f.re, text, TRUE)
    IN  [j \in 1..Len(matches) |-> FallacyFinding(f.name, text, matches[j])]

\* the findings of one fallacy: its first MaxPerFallacy matches
FallacyFindings(f, text) ==
    LET matches == Take(FindIter(f.re, text, TRUE), MaxPerFallacy)
    IN  [j \in 1..Len(matches) |-> FallacyFinding(f.name, text, matches[j])]

RECURSIVE AllFallacyFindings(_, _)
AllFallacyFindings(text, j) ==
    IF j > Len(FALLACY_PATTERNS) THEN <<>>
    ELSE FallacyFindings(FALLACY_PATTERNS[j], text) \o AllFallacyFindings(text, j + 1)

\* (the citation test without the test for research / study)
MissingCitationsUnconditional(text) == ~Search(CitationRe, text, FALSE)

\* (the test for research / study without the citation test)
MissingCitationsIgnoringCitations(text) ==
    Contains(Lower(text), "research") \/ Contains(Lower(text), "study")

\* 'research' or 'study' in the lowercased text, and no citation anywhere
MissingCitations(text) ==
    /\ Contains(Lower(text), "research") \/ Contains(Lower(text), "study")
    /\ ~Search(CitationRe, text, FALSE)

VagueQuantifiers(text) == Search(VagueRe, text, TRUE)

\* (the structural checks run before the fallacy scan)
GapsUncutStructuralFirst(text) ==
    (IF MissingCitations(text) THEN <<NoCitationsGap>> ELSE <<>>)
      \o (IF VagueQuantifiers(text) THEN <<VagueGap>> ELSE <<>>)
      \o AllFallacyFindings(text, 1)

\* the list before the final cut
GapsUncut(text) ==
    AllFallacyFindings(text, 1)
      \o (IF MissingCitations(text) THEN <<NoCitationsGap>> ELSE <<>>)
      \o (IF VagueQuantifiers(text) THEN <<VagueGap>> ELSE <<>>)

identify_logical_gaps(text) == Take(GapsUncut(text), MaxGaps)

(***************************************************************************)
(* CriticalAnalyzer.generate_critical_summary                              *)
(***************************************************************************)
\* str(n) for n >= 0, as an f-string formats a length
RECURSIVE Str(_)
Str(n) ==
    IF n < 10 THEN SubSeq(DigitChars, n + 1, n + 1)
    ELSE Str(n \div 10) \o SubSeq(DigitChars, (n % 10) + 1, (n % 10) + 1)

ScrutinySentence    == "This article presents several claims that warrant scrutiny."
WellReasonedSentence == "This article appears well-reasoned with supported arguments."
CounterargSentence  == "The article may lack counterarguments or alternative perspectives."
NoCitationsSentence == "No academic citations were detected in the text."
LimitedCitationsSentence == "The article contains limited citations."

ClaimsSentence(n) ==
    "There are " \o Str(n) \o " potentially unsupported claims "
      \o "that would benefit from additional evidence or citations."

GapsSentence(n) ==
    "The analysis identified " \o Str(n) \o " potential logical issues "
      \o "or areas requiring more rigorous argumentation."

LimitedCitationsBelow == 3

\* len(re.findall(r'\(\d{4}\)|\[\d+\]|et al\.', text))
CitationCount(text) == Len(FindIter(CitationCountRe, text, FALSE))

\* (the limited-citations test as a separate if: with no citation both
\* citation sentences are produced)
SummaryPartsBothCitationSentences(text, unsupported_claims, logical_gaps) ==
    (IF unsupported_claims # <<>> \/ logical_gaps # <<>>
       THEN <<ScrutinySentence>> ELSE <<WellReasonedSentence>>)
      \o (IF unsupported_claims # <<>> THEN <<ClaimsSentence(Len(unsupported_claims))>> ELSE <<>>)
      \o (IF logical_gaps # <<>> THEN <<GapsSentence(Len(logical_gaps))>> ELSE <<>>)
      \o (IF ~Contains(Lower(text), "however") /\ ~Contains(Lower(text), "although")
            THEN <<CounterargSentence>> ELSE <<>>)
      \o (IF CitationCount(text) = 0 THEN <<NoCitationsSentence>> ELSE <<>>)
      \o (IF CitationCount(text) < LimitedCitationsBelow THEN <<LimitedCitationsSentence>>
          ELSE <<>>)

\* the sentences of the summary, in order
SummaryParts(text, unsupported_claims, logical_gaps) ==
    (IF unsupported_claims # <<>> \/ logical_gaps # <<>>
       THEN <<ScrutinySentence>> ELSE <<WellReasonedSentence>>)
      \o (IF unsupported_claims # <<>> THEN <<ClaimsSentence(Len(unsupported_claims))>> ELSE <<>>)
      \o (IF logical_gaps # <<>> THEN <<GapsSentence(Len(logical_gaps))>> ELSE <<>>)
      \o (IF ~Contains(Lower(text), "however") /\ ~Contains(Lower(text), "although")
            THEN <<CounterargSentence>> ELSE <<>>)
      \o (IF CitationCount(text) = 0 THEN <<NoCitationsSentence>>
          ELSE IF CitationCount(text) < LimitedCitationsBelow THEN <<LimitedCitationsSentence>>
          ELSE <<>>)

generate_critical_summary(text, unsupported_claims, logical_gaps) ==
    JoinSpace(SummaryParts(text, unsupported_claims, logical_gaps))

(***************************************************************************)
(* CriticalAnalyzer.generate_follow_up_questions                           *)
(***************************************************************************)
MainClaimMinLen == 30    \* a key sentence is longer than this
MaxQuestions    == 5

GenericQuestions == <<
    "What counterarguments or alternative viewpoints exist?",
    "What are the practical implications of implementing these ideas?",
    "What might critics of this perspective say?",
    "What further research would strengthen these conclusions?"
>>

\* [s.strip() for s in text.split('.') if len(s.strip()) > 30]
RECURSIVE KeySentencesFrom(_, _)
KeySentencesFrom(pieces, j) ==
    IF j > Len(pieces) THEN <<>>
    ELSE (IF Len(Strip(pieces[j])) > MainClaimMinLen THEN <<Strip(pieces[j])>> ELSE <<>>)
           \o KeySentencesFrom(pieces, j + 1)

KeySentences(text) == KeySentencesFrom(SplitDot(text), 1)

EvidenceQuestion(main_claim) ==
    "What evidence supports the assertion that " \o Lower(main_claim) \o "?"

BroaderQuestion(topic) ==
    "How does this relate to broader issues in " \o Lower(topic) \o "?"

\* (the two topics in the wrong order)
ConnectionQuestionSwapped(t1, t2) ==
    "What is the connection between " \o t2 \o " and " \o t1 \o " in this context?"

\* f"What is the connection between {topics[0]} and {topics[1]} in this context?"
ConnectionQuestion(t1, t2) ==
    "What is the connection between " \o t1 \o " and " \o t2 \o " in this context?"

\* the list before the final cut
QuestionsUncut(text, topics) ==
    (IF KeySentences(text) # <<>> THEN <<EvidenceQuestion(KeySentences(text)[1])>> ELSE <<>>)
      \o (IF topics # <<>> THEN <<BroaderQuestion(topics[1])>> ELSE <<>>)
      \o (IF topics # <<>> /\ Len(topics) > 1
            THEN <<ConnectionQuestion(topics[1], topics[2])>> ELSE <<>>)
      \o GenericQuestions

\* (the questions returned without the cut)
generate_follow_up_questions_uncut(text, topics) == QuestionsUncut(text, topics)

generate_follow_up_questions(text, topics) == Take(QuestionsUncut(text, topics), MaxQuestions)

(***************************************************************************)
(* CriticalAnalyzer.suggest_related_topics                                 *)
(***************************************************************************)
topic_map == [
    Technology  |-> <<"Artificial Intelligence", "Cybersecurity", "Digital Privacy">>,
    Science     |-> <<"Research Methodology", "Scientific Ethics", "Peer Review">>,
    Healthcare  |-> <<"Medical Ethics", "Public Health Policy", "Healthcare Economics">>,
    Politics    |-> <<"Political Philosophy", "Governance", "Policy Analysis">>,
    Economics   |-> <<"Behavioral Economics", "Market Theory", "Economic Policy">>,
    Environment |-> <<"Climate Science", "Sustainability", "Environmental Policy">>,
    Education   |-> <<"Pedagogy", "Educational Technology", "Learning Theory">>
]

\* the dict keeps its declaration order
keyword_topics == <<
    [keyword |-> "ai",       topic_name |-> "Machine Learning Applications"],
    [keyword |-> "data",     topic_name |-> "Data Science and Analytics"],
    [keyword |-> "climate",  topic_name |-> "Climate Change"],
    [keyword |-> "policy",   topic_name |-> "Public Policy"],
    [keyword |-> "market",   topic_name |-> "Market Economics"],
    [keyword |-> "social",   topic_name |-> "Social Impact"],
    [keyword |-> "research", topic_name |-> "Research Methodology"]
>>

MaxRelated == 5

Elems(xs) == {xs[j] : j \in 1..Len(xs)}

\* the first loop: related.extend(topic_map[topic]) for the topics of the table
RECURSIVE MappedTopics(_, _)
MappedTopics(current_topics, j) ==
    IF j > Len(current_topics) THEN <<>>
    ELSE (IF current_topics[j] \in DOMAIN topic_map THEN topic_map[current_topics[j]] ELSE <<>>)
           \o MappedTopics(current_topics, j + 1)

\* the second loop, from the j-th keyword on, `related` being the list so far
RECURSIVE WithKeywordTopics(_, _, _)
WithKeywordTopics(related, words, j) ==
    IF j > Len(keyword_topics) THEN related
    ELSE IF keyword_topics[j].keyword \in Elems(words)
            /\ keyword_topics[j].topic_name \notin Elems(related)
         THEN WithKeywordTopics(Append(related, keyword_topics[j].topic_name), words, j + 1)
    ELSE WithKeywordTopics(related, words, j + 1)

\* the list `related` before it is made a set
RelatedList(text, current_topics) ==
    WithKeywordTopics(MappedTopics(current_topics, 1), SplitWords(Lower(text)), 1)

\* Every topic name of the two tables, in declaration order.
TopicNames == <<
    "Artificial Intelligence", "Cybersecurity", "Digital Privacy",
    "Research Methodology", "Scientific Ethics", "Peer Review",
    "Medical Ethics", "Public Health Policy", "Healthcare Economics",
    "Political Philosophy", "Governance", "Policy Analysis",
    "Behavioral Economics", "Market Theory", "Economic Policy",
    "Climate Science", "Sustainability", "Environmental Policy",
    "Pedagogy", "Educational Technology", "Learning Theory",
    "Machine Learning Applications", "Data Science and Analytics", "Climate Change",
    "Public Policy", "Market Economics", "Social Impact"
>>

HashModulus == 29

\* hash(name) in a process whose string hashing is salted with `seed`
\* (PYTHONHASHSEED): distinct names get distinct values, and the order the
\* values fall in depends on the seed (seed 0: declaration order, seed 1: its
\* reverse, ...).
StrHash(name, seed) ==
    LET idx == CHOOSE j \in 1..Len(TopicNames) : TopicNames[j] = name
    IN  (idx * (1 + (HashModulus - 2) * seed)) % HashModulus

\* list(related): the list as it is, duplicates kept
ListOfSetKeepAll(xs, seed) == xs

\* list(set(xs)): the distinct elements, in the order of their slots in the
\* set's hash table
ListOfSet(xs, seed) ==
    LET S == Elems(xs)
    IN  [j \in 1..Cardinality(S) |->
           CHOOSE x \in S :
               Cardinality({y \in S : StrHash(y, seed) < StrHash(x, seed)}) = j - 1]

suggest_related_topics(text, current_topics, seed) ==
    Take(ListOfSet(RelatedList(text, current_topics), seed), MaxRelated)

(***************************************************************************)
(* CriticalAnalyzer.analyze                                                *)
(***************************************************************************)
analyze(text, topics, seed) ==
    LET unsupported_claims == identify_unsupported_claims(text)
        logical_gaps       == identify_logical_gaps(text)
    IN  [unsupported_claims  |-> unsupported_claims,
         logical_gaps        |-> logical_gaps,
         critical_summary    |-> generate_critical_summary(text, unsupported_claims, logical_gaps),
         follow_up_questions |-> generate_follow_up_questions(text, topics),
         related_topics      |-> suggest_related_topics(text, topics, seed)]

(***************************************************************************)
(* DocumentAnalyzer.assess_difficulty                                      *)
(***************************************************************************)
Levels == <<"beginner", "intermediate", "advanced">>     \* declaration order

DIFFICULTY_INDICATORS == [
    beginner     |-> <<"simple", "basic", "introduction", "beginner", "overview", "fundamentals">>,
    intermediate |-> <<"analysis", "explores", "examines", "discusses", "considers">>,
    advanced     |-> <<"comprehensive", "complex", "sophisticated", "advanced", "technical",
                       "in-depth", "theoretical", "methodology", "paradigm">>
]

RECURSIVE CountAll(_, _, _)
CountAll(text_lower, indicators, j) ==
    IF j > Len(indicators) THEN 0
    ELSE Count(text_lower, indicators[j]) + CountAll(text_lower, indicators, j + 1)

\* scores[level] after the counting loop
IndicatorScore(text, level) == CountAll(Lower(text), DIFFICULTY_INDICATORS[level], 1)

\* sum(len(word) for word in words[lo..hi]), by halves
RECURSIVE SumLen(_, _, _)
SumLen(words, lo, hi) ==
    IF hi < lo THEN 0
    ELSE IF hi = lo THEN Len(words[lo])
    ELSE LET mid == (lo + hi) \div 2 IN SumLen(words, lo, mid) + SumLen(words, mid + 1, hi)

DivError == [error |-> "ZeroDivisionError"]

\* a / b as an exact fraction; dividing by 0 raises
Div(a, b) == IF b = 0 THEN DivError ELSE [num |-> a, den |-> b]

Zero == [num |-> 0, den |-> 1]

\* q > c for a fraction q
Exceeds(q, c) == q.num > c * q.den

\* (the division without the `if words` guard)
AvgWordLengthUnguarded(text) ==
    LET words == SplitWords(text)
    IN  Div(SumLen(words, 1, Len(words)), Len(words))

\* sum(len(word) for word in words) / len(words) if words else 0
AvgWordLength(text) ==
    LET words == SplitWords(text)
    IN  IF words # <<>> THEN Div(SumLen(words, 1, Len(words)), Len(words)) ELSE Zero

\* len(words) / len(sentences) if sentences else 0
AvgSentenceLength(text) ==
    LET words     == SplitWords(text)
        sentences == SplitDot(text)
    IN  IF sentences # <<>> THEN Div(Len(words), Len(sentences)) ELSE Zero

AdvancedWordLen      == 6
AdvancedSentenceLen  == 25
IntermediateWordLen  == 5
IntermediateSentenceLen == 15
AdvancedBonus        == 3
IntermediateBonus    == 2
BeginnerBonus        == 2

\* (word lengths compared with >= instead of >)
ComplexityBranchInclusive(text) ==
    LET w == AvgWordLength(text)
        q == AvgSentenceLength(text)
    IN  IF w.num >= AdvancedWordLen * w.den \/ Exceeds(q, AdvancedSentenceLen) THEN "advanced"
        ELSE IF w.num >= IntermediateWordLen * w.den \/ Exceeds(q, IntermediateSentenceLen)
             THEN "intermediate"
        ELSE "beginner"

\* the level whose score the if/elif/else on text complexity raises
ComplexityBranch(text) ==
    IF Exceeds(AvgWordLength(text), AdvancedWordLen)
         \/ Exceeds(AvgSentenceLength(text), AdvancedSentenceLen) THEN "advanced"
    ELSE IF Exceeds(AvgWordLength(text), IntermediateWordLen)
         \/ Exceeds(AvgSentenceLength(text), IntermediateSentenceLen) THEN "intermediate"
    ELSE "beginner"

Bonus(level) ==
    CASE level = "advanced"     -> AdvancedBonus
      [] level = "intermediate" -> IntermediateBonus
      [] OTHER                  -> BeginnerBonus

\* (three separate ifs instead of if / elif / else: every bonus whose
\* condition holds is added)
DifficultyScoresEveryBonus(text) ==
    LET word_len == AvgWordLength(text)
        sent_len == AvgSentenceLength(text)
        advanced     == Exceeds(word_len, AdvancedWordLen) \/ Exceeds(sent_len, AdvancedSentenceLen)
        intermediate == Exceeds(word_len, IntermediateWordLen)
                          \/ Exceeds(sent_len, IntermediateSentenceLen)
    IN  [level \in Elems(Levels) |->
            IndicatorScore(text, level)
              + (CASE level = "advanced"     -> IF advanced THEN AdvancedBonus ELSE 0
                   [] level = "intermediate" -> IF intermediate THEN IntermediateBonus ELSE 0
                   [] OTHER -> IF ~advanced /\ ~intermediate THEN BeginnerBonus ELSE 0)]

\* the final scores dict
DifficultyScores(text) ==
    [level \in Elems(Levels) |->
        IndicatorScore(text, level)
          + (IF ComplexityBranch(text) = level THEN Bonus(level) ELSE 0)]

\* (the last level of maximal score instead of the first)
MaxLevelLast(scores) ==
    LET j == CHOOSE a \in 1..Len(Levels) :
                 /\ \A b \in 1..Len(Levels) : scores[Levels[b]] <= scores[Levels[a]]
                 /\ \A b \in (a + 1)..Len(Levels) : scores[Levels[b]] < scores[Levels[a]]
    IN  Levels[j]

\* max(scores, key=scores.get): the first level, in dict order, of maximal score
MaxLevel(scores) ==
    LET j == CHOOSE a \in 1..Len(Levels) :
                 /\ \A b \in 1..Len(Levels) : scores[Levels[b]] <= scores[Levels[a]]
                 /\ \A b \in 1..(a - 1) : scores[Levels[b]] < scores[Levels[a]]
    IN  Levels[j]

\* the return value, or the name of the exception raised
assess_difficulty(text) ==
    IF AvgWordLength(text) = DivError \/ AvgSentenceLength(text) = DivError
    THEN DivError.error
    ELSE MaxLevel(DifficultyScores(text))

(***************************************************************************)
(* utils/text_processing.py                                                *)
(***************************************************************************)
\* the Python slice t[:n], for n of either sign
SliceTo(t, n) ==
    IF n >= 0 THEN Slice(t, 0, Min(n, Len(t)))
    ELSE Slice(t, 0, Max(0, Len(t) + n))

\* text if it fits, else text[:max_length - len(suffix)] + suffix
truncate_text(text, max_length, suffix) ==
    IF Len(text) <= max_length THEN text
    ELSE SliceTo(text, max_length - Len(suffix)) \o suffix

\* the punctuation that clean_text keeps: . , ! ? ; : - ' " ( )
KeptPunctuation == {".", ",", "!", "?", ";", ":", "-", "'", "\"", "(", ")"}

\* the character class [^\w\s.,!?;:\-'"()]
SpecialChar(c) == c \notin WordSet \cup SpaceSet \cup KeptPunctuation

\* re.sub(r'[^\w\s.,!?;:\-\'"()]', '', t) on t[a:b], by halves
RECURSIVE RemoveSpecialIn(_, _, _)
RemoveSpecialIn(t, a, b) ==
    IF b <= a THEN ""
    ELSE IF b = a + 1 THEN (IF SpecialChar(At(t, a)) THEN "" ELSE At(t, a))
    ELSE LET mid == (a + b) \div 2
         IN  RemoveSpecialIn(t, a, mid) \o RemoveSpecialIn(t, mid, b)

RemoveSpecial(t) == RemoveSpecialIn(t, 0, Len(t))

\* ' '.join(text.split()), then the special characters removed, then strip()
clean_text(text) == Strip(RemoveSpecial(JoinSpace(SplitWords(text))))

(***************************************************************************)
(* ingestion/pdf_parser.py and ingestion/url_scraper.py.  The extractors   *)
(* (pypdf, newspaper3k, requests, BeautifulSoup) are the environment: a    *)
(* file or a web page is given by what they return for it.  An ingestion   *)
(* result is the content dict, or names the exception raised.              *)
(***************************************************************************)
PdfMinLen      == 100
ArticleMinLen  == 100
FallbackMinLen == 100

Raised(exception) == [raised |-> exception, title |-> "", text |-> "", source |-> ""]

Content(title, text, source) ==
    [raised |-> "", title |-> title, text |-> text, source |-> source]

\* text_parts: the texts of the pages from the j-th on whose extraction
\* succeeds and gives a non-empty text
RECURSIVE TextParts(_, _)
TextParts(pages, j) ==
    IF j > Len(pages) THEN <<>>
    ELSE (IF pages[j].extracts /\ pages[j].text # "" THEN <<pages[j].text>> ELSE <<>>)
           \o TextParts(pages, j + 1)

\* '\n'.join(parts)
RECURSIVE JoinNewline(_)
JoinNewline(parts) ==
    IF Len(parts) = 0 THEN ""
    ELSE IF Len(parts) = 1 THEN parts[1]
    ELSE parts[1] \o "\n" \o JoinNewline(Tail(parts))

\* (the parser without its minimum-length check)
parseAnyLength(file_content, filename) ==
    IF ~file_content.is_pdf THEN Raised("ValueError")
    ELSE IF Len(file_content.pages) = 0 THEN Raised("ValueError")
    ELSE Content(IF file_content.title = "" THEN filename ELSE file_content.title,
                 JoinSpace(SplitWords(JoinNewline(TextParts(file_content.pages, 1)))),
                 filename)

\* PDFParser.parse: every exception inside the try leaves as a ValueError
parse(file_content, filename) ==
    IF ~file_content.is_pdf THEN Raised("ValueError")
    ELSE IF Len(file_content.pages) = 0 THEN Raised("ValueError")
    ELSE LET title     == IF file_content.title = "" THEN filename ELSE file_content.title
             full_text == JoinSpace(SplitWords(JoinNewline(TextParts(file_content.pages, 1))))
         IN  IF Len(full_text) < PdfMinLen THEN Raised("ValueError")
             ELSE Content(title, full_text, filename)

\* URLScraper.scrape: the article extractor first, then the fallback on the
\* fetched page; every failure of the fallback leaves as a ValueError
scrape(url, page) ==
    IF page.article_ok /\ page.article_text # "" /\ Len(page.article_text) > ArticleMinLen
    THEN Content(IF page.article_title = "" THEN "Untitled" ELSE page.article_title,
                 page.article_text, url)
    ELSE IF ~page.fetch_ok THEN Raised("ValueError")
    ELSE LET body_text == JoinSpace(SplitWords(page.body_text))
         IN  IF Len(body_text) < FallbackMinLen THEN Raised("ValueError")
             ELSE Content(IF page.html_title = "" THEN "Untitled" ELSE Strip(page.html_title),
                          body_text, url)

(***************************************************************************)
(* api/routes.py                                                           *)
(***************************************************************************)
HTTP_200_OK                       == 200
HTTP_400_BAD_REQUEST              == 400
HTTP_413_REQUEST_ENTITY_TOO_LARGE == 413
HTTP_422_UNPROCESSABLE_ENTITY     == 422
HTTP_500_INTERNAL_SERVER_ERROR    == 500

max_file_size == 10 * 1024 * 1024
PreviewChars  == 500

\* str.endswith(suffix)
endswith(s, suffix) ==
    Len(s) >= Len(suffix) /\ Slice(s, Len(s) - Len(suffix), Len(s)) = suffix

HTTPException(status_code) == [kind |-> "HTTPException", status_code |-> status_code]
ValueError == [kind |-> "ValueError", status_code |-> 0]
OtherException == [kind |-> "Exception", status_code |-> 0]

\* (the except clauses without `except HTTPException: raise`)
PdfHandlerStatusNoReraise(exception) ==
    IF exception.kind = "ValueError" THEN HTTP_422_UNPROCESSABLE_ENTITY
    ELSE HTTP_500_INTERNAL_SERVER_ERROR

\* the status that the except clauses of analyze_pdf give an exception raised
\* in its try block
PdfHandlerStatus(exception) ==
    IF exception.kind = "HTTPException" THEN exception.status_code
    ELSE IF exception.kind = "ValueError" THEN HTTP_422_UNPROCESSABLE_ENTITY
    ELSE HTTP_500_INTERNAL_SERVER_ERROR

\* the same for analyze_url, which has no clause for HTTPException
UrlHandlerStatus(exception) ==
    IF exception.kind = "ValueError" THEN HTTP_422_UNPROCESSABLE_ENTITY
    ELSE HTTP_500_INTERNAL_SERVER_ERROR

(***************************************************************************)
(* ml/models.py and the model calls of ml/analyzer.py.  The transformers   *)
(* pipelines are the environment: for each model it says whether building  *)
(* the pipeline succeeds and whether running it succeeds, and what it      *)
(* returns.  A handle of the manager is None or the pipeline object it was *)
(* given, which is named by the number of the request that built it.       *)
(***************************************************************************)
None == 0

Handles == {"_summarizer", "_classifier", "_sentiment"}

\* ModelManager.__init__
ModelManager == [handle \in Handles |-> None]

\* the environment of one model
Works      == "works"         \* the pipeline is built and runs
LoadFails  == "load_fails"    \* pipeline(...) raises
CallFails  == "call_fails"    \* the pipeline is built, running it raises
Behaviours == {Works, LoadFails, CallFails}

\* (a property that builds its pipeline on every access)
LazyProperty_Reloading(models, handle, behaviour, id) ==
    IF behaviour = LoadFails
    THEN [models |-> models, raised |-> TRUE]
    ELSE [models |-> [models EXCEPT ![handle] = id], raised |-> FALSE]

\* the properties summarizer, classifier and sentiment: the manager after the
\* access, and whether the access raised instead of returning the pipeline
LazyProperty(models, handle, behaviour, id) ==
    IF models[handle] = None
    THEN IF behaviour = LoadFails
         THEN [models |-> models, raised |-> TRUE]
         ELSE [models |-> [models EXCEPT ![handle] = id], raised |-> FALSE]
    ELSE [models |-> models, raised |-> FALSE]

\* ModelManager.is_ready
is_ready(models) ==
    /\ models["_summarizer"] # None
    /\ models["_classifier"] # None
    /\ models["_sentiment"] # None

\* one model call inside its try block: it raises if the property raises or
\* if the pipeline does
ModelCall(models, handle, behaviour, id) ==
    LET access == LazyProperty(models, handle, behaviour, id)
    IN  [models |-> access.models, raised |-> access.raised \/ behaviour = CallFails]

max_text_length == 10000
TopK            == 3

\* '.'.join(parts)
RECURSIVE JoinDot(_)
JoinDot(parts) ==
    IF Len(parts) = 0 THEN ""
    ELSE IF Len(parts) = 1 THEN parts[1]
    ELSE parts[1] \o "." \o JoinDot(Tail(parts))

\* DocumentAnalyzer.summarize, given whether the model call raised
summarize(text, raised, summary_text) ==
    LET truncated == IF Len(text) > max_text_length THEN SliceTo(text, max_text_length)
                     ELSE text
    IN  IF raised THEN JoinDot(Take(SplitDot(truncated), 3)) \o "."
        ELSE summary_text

\* DocumentAnalyzer.classify_topics
classify_topics(raised, labels) ==
    IF raised THEN <<"General">> ELSE Take(labels, TopK)

\* DocumentAnalyzer.analyze_sentiment; the score is in hundredths
analyze_sentiment(raised, label, score) ==
    IF raised THEN [label |-> "neutral", score |-> 50]
    ELSE [label |-> Lower(label), score |-> score]

\* DocumentAnalyzer.analyze: the three model calls in the order of the dict
\* display, then the difficulty; ml is the environment of the models
DocumentAnalyzer_analyze(models, text, ml, id) ==
    LET summary   == ModelCall(models, "_summarizer", ml.summarizer, id)
        topics    == ModelCall(summary.models, "_classifier", ml.classifier, id)
        sentiment == ModelCall(topics.models, "_sentiment", ml.sentiment, id)
    IN  [models     |-> sentiment.models,
         summary    |-> summarize(text, summary.raised, ml.summary_text),
         topics     |-> classify_topics(topics.raised, ml.labels),
         sentiment  |-> analyze_sentiment(sentiment.raised, ml.label, ml.score),
         difficulty |-> assess_difficulty(text)]

\* _analyze_content: the response built from the content dict and the results
\* of the two analyses
AnalysisResponse(content, ml_results, critical_results) ==
        [title               |-> content.title,
         source              |-> content.source,
         text_preview        |-> SliceTo(content.text, PreviewChars),
         word_count          |-> Len(SplitWords(content.text)),
         summary             |-> ml_results.summary,
         topics              |-> ml_results.topics,
         sentiment           |-> ml_results.sentiment.label,
         sentiment_score     |-> ml_results.sentiment.score,
         difficulty_level    |-> ml_results.difficulty,
         critical_analysis   |-> critical_results.critical_summary,
         logical_gaps        |-> critical_results.logical_gaps,
         unsupported_claims  |-> critical_results.unsupported_claims,
         follow_up_questions |-> critical_results.follow_up_questions,
         related_topics      |-> critical_results.related_topics]

(***************************************************************************)
(* The documents and topic lists the engine is run on.                     *)
(***************************************************************************)
MaxRepeat == 6     \* repetitions of a passage in a document
MaxWords  == 26    \* repetitions of a word in a document
MaxTopics == 2     \* length of a topic list
MaxSeed   == 1     \* hash seeds 0..MaxSeed
MaxLength == 21    \* the largest max_length passed to truncate_text
MaxRaw    == 5     \* characters of a raw text passed to clean_text

\* u repeated n times (Python's u * n)
RECURSIVE RepeatStr(_, _)
RepeatStr(u, n) ==
    IF n <= 0 THEN ""
    ELSE IF n = 1 THEN u
    ELSE LET h == RepeatStr(u, n \div 2)
         IN  h \o h \o (IF n % 2 = 1 THEN u ELSE "")

\* a sentence of n >= 9 characters that matches the claim pattern clearly\s+\w+
LongSentence(n) == "clearly x" \o RepeatStr("y", n - 9)

ClaimPassages == {
    "Experts say this will definitely work. ",
    "Nothing is asserted in this sentence. It is clear that 50% of users agree. ",
    "All good.  " }

ClaimEndings == {
    "",
    "Experts say this will definitely work",
    "Studies show (2020) that cats purr. Experts think (Smith) otherwise.",
    "  always true it is ok  . never say never again!",
    "  always true it is o  .",
    LongSentence(ClaimChars) \o ". Without doubt",
    LongSentence(ClaimChars + 1),
    "   " \o LongSentence(ClaimChars + 40) \o " . Everyone knows that it is so. " }

ClaimTexts == {RepeatStr(u, n) \o v : u \in ClaimPassages, n \in {0, 1, MaxRepeat - 2, MaxRepeat},
                                      v \in ClaimEndings}

GapPassages == {
    "Famous bob says either options. ",
    "Expert Tom believes all cats are nice because it rains therefore only two ways. ",
    "If you go then you stay and then leave. " }

GapEndings == {
    "",
    "Research shows results.",
    "Research (2020) shows results.",
    "The STUDY [12] found few things.",
    "Some research on many topics",
    "Several studies were made (2020)",
    "Every dog do bark; always x have research (20) [a]",
    RepeatStr("so ", 17) \o "Famous bob says either options" \o RepeatStr(" ok", 40) }

GapTexts == {RepeatStr(u, n) \o v : u \in GapPassages, n \in 0..(MaxRepeat \div 2),
                                    v \in GapEndings}

DifficultyWords == {"ab ", "abcde ", "abcdef ", "abcdefg ", "Simple "}

DifficultyEndings == {"", " ", ".", "Short.", "Too short.", "analysis explores",
                      "Analysis explores; examines.", "complex basics",
                      "complex technical"}

\* word counts around the thresholds on the average sentence length
WordCounts == 0..3 \cup (IntermediateSentenceLen - 1)..(IntermediateSentenceLen + 2)
                   \cup (AdvancedSentenceLen - 1)..MaxWords

DifficultyTexts == {RepeatStr(w, n) \o v : w \in DifficultyWords, n \in WordCounts,
                                           v \in DifficultyEndings}

TopicPool == {"Technology", "Science", "Education", "General"}

TopicLists == UNION {[1..n -> TopicPool] : n \in 0..MaxTopics}

TopicTexts == {
    "",
    "Short.",
    "AI and data drive the market. Research on climate policy has social impact",
    "The quick brown fox jumps over the lazy dog today. Research matters",
    "This sentence has exactly 30 c. data, more data",
    " This sentence has exactly 31 ch . " }

\* documents for the whole analysis: degenerate ones, plain ones, and ones
\* with claims, fallacies and citations
AnalyzeTexts == TopicTexts \cup {
    "   ",
    "Experts say this will definitely work. ",
    "Research (2020) shows results, however [1] et al. disagree.",
    "Famous bob says either options. Some research on many topics",
    "Although some studies exist (2020), experts say otherwise.",
    LongSentence(ClaimChars + 1) }

Seeds == 0..MaxSeed

(***************************************************************************)
(* The state machine.  A request names an operation of the engine (req)    *)
(* and carries its inputs (text, topics); the operation runs as one step   *)
(* and leaves its return value in result.  hashSeed is the string-hash     *)
(* salt of the running interpreter, fixed when the process starts.  prev   *)
(* is the observer's record of an earlier analyze call.  args holds the    *)
(* further arguments of the call (of truncate_text, of an API request);    *)
(* calls lists the collaborators an API handler has invoked so far, and    *)
(* status is the HTTP status of its response (0: none yet).  model_manager  *)
(* is the process-wide ModelManager, and served counts the API requests    *)
(* the process has received.                                               *)
(***************************************************************************)
VARIABLES req, text, topics, pc, result, hashSeed, prev, args, calls, status,
          model_manager, served

vars == <<req, text, topics, pc, result, hashSeed, prev, args, calls, status,
          model_manager, served>>

NoArgs == <<>>

NoResult == <<>>
NoReport == [unsupported_claims |-> <<>>, logical_gaps |-> <<>>, critical_summary |-> "",
             follow_up_questions |-> <<>>, related_topics |-> <<>>]
NoCall   == [seen |-> FALSE, text |-> "", topics |-> <<>>, result |-> NoReport]

\* a request for operation op on the documents `texts` and topic lists `lists`
Request(op, texts, lists, seeds) ==
    /\ req = op
    /\ text \in texts
    /\ topics \in lists
    /\ pc = "ready"
    /\ result = NoResult
    /\ hashSeed \in seeds
    /\ prev = NoCall
    /\ args = NoArgs
    /\ calls = <<>>
    /\ status = 0
    /\ model_manager = ModelManager
    /\ served = 0

\* the step that runs the requested operation and returns value
Return(op, value) ==
    /\ req = op
    /\ pc = "ready"
    /\ result' = value
    /\ pc' = "done"
    /\ UNCHANGED <<req, text, topics, hashSeed, prev, args, calls, status, model_manager, served>>

IdentifyUnsupportedClaims ==
    Return("identify_unsupported_claims", identify_unsupported_claims(text))

IdentifyLogicalGaps ==
    Return("identify_logical_gaps", identify_logical_gaps(text))

GenerateFollowUpQuestions ==
    Return("generate_follow_up_questions", generate_follow_up_questions(text, topics))

SuggestRelatedTopics ==
    Return("suggest_related_topics", suggest_related_topics(text, topics, hashSeed))

Analyze ==
    Return("analyze", analyze(text, topics, hashSeed))

AssessDifficulty ==
    Return("assess_difficulty", assess_difficulty(text))

\* (only suggest_related_topics, and analyze through it, read the hash seed)
InitClaims     == Request("identify_unsupported_claims", ClaimTexts, {<<>>}, {0})
InitGaps       == Request("identify_logical_gaps", GapTexts, {<<>>}, {0})
InitQuestions  == Request("generate_follow_up_questions", TopicTexts, TopicLists, {0})
InitRelated    == Request("suggest_related_topics", TopicTexts, TopicLists, Seeds)
InitAnalyze    == Request("analyze", AnalyzeTexts, TopicLists, Seeds)
InitDifficulty == Request("assess_difficulty", DifficultyTexts, {<<>>}, {0})

Init ==
    \/ InitClaims
    \/ InitGaps
    \/ InitQuestions
    \/ InitRelated
    \/ InitAnalyze
    \/ InitDifficulty

Next ==
    \/ IdentifyUnsupportedClaims
    \/ IdentifyLogicalGaps
    \/ GenerateFollowUpQuestions
    \/ SuggestRelatedTopics
    \/ Analyze
    \/ AssessDifficulty

Spec == Init /\ [][Next]_vars

\* one specification per operation
SpecClaims     == InitClaims /\ [][IdentifyUnsupportedClaims]_vars
SpecGaps       == InitGaps /\ [][IdentifyLogicalGaps]_vars
SpecQuestions  == InitQuestions /\ [][GenerateFollowUpQuestions]_vars
SpecRelated    == InitRelated /\ [][SuggestRelatedTopics]_vars
SpecAnalyze    == InitAnalyze /\ [][Analyze]_vars
SpecDifficulty == InitDifficulty /\ [][AssessDifficulty]_vars

\* the operation `op` has returned
Returned(op) == req = op /\ pc = "done"

(***************************************************************************)
(* Successive analyses in one service, over restarts of the process.       *)
(***************************************************************************)
RunTexts  == {"", "AI and data drive the market. Research on climate policy has social impact"}
RunTopics == {<<>>, <<"Science">>, <<"Technology", "Science">>}

InitRuns == Request("analyze", RunTexts, RunTopics, Seeds)

\* the service takes the next document; the observer may keep the call that
\* has just returned
NextDocument ==
    /\ pc = "done"
    /\ text' \in RunTexts
    /\ topics' \in RunTopics
    /\ pc' = "ready"
    /\ result' = NoResult
    /\ \/ prev' = prev
       \/ prev' = [seen |-> TRUE, text |-> text, topics |-> topics, result |-> result]
    /\ UNCHANGED <<req, hashSeed, args, calls, status, model_manager, served>>

\* the process is started anew: the interpreter draws a new hash seed, and the
\* pending document is analyzed again
Restart ==
    /\ hashSeed' \in Seeds
    /\ pc' = "ready"
    /\ result' = NoResult
    /\ UNCHANGED <<req, text, topics, prev, args, calls, status, model_manager, served>>

NextRuns ==
    \/ Analyze
    \/ NextDocument
    \/ Restart

SpecRuns == InitRuns /\ [][NextRuns]_vars

(***************************************************************************)
(* Calls of utils/text_processing.py.                                      *)
(***************************************************************************)
TruncateTexts == {"", "ab", "abcdef", "Short text",
                  "This is a long text that needs truncation"}

Suffixes == {"...", "", "~"}

\* a call of a function of text_processing on `texts`, with arguments `arguments`
UtilityRequest(op, texts, arguments) ==
    /\ req = op
    /\ text \in texts
    /\ args \in arguments
    /\ topics = <<>>
    /\ pc = "ready"
    /\ result = NoResult
    /\ hashSeed = 0
    /\ prev = NoCall
    /\ calls = <<>>
    /\ status = 0
    /\ model_manager = ModelManager
    /\ served = 0

InitTruncate ==
    UtilityRequest("truncate_text", TruncateTexts,
                   [max_length : 0..MaxLength, suffix : Suffixes])

TruncateText ==
    Return("truncate_text", truncate_text(text, args.max_length, args.suffix))

SpecTruncate == InitTruncate /\ [][TruncateText]_vars

\* letters, whitespace, kept punctuation and special characters
RawChars == {"a", " ", "\n", "!", "@"}

\* the texts of at most n characters over RawChars
RECURSIVE RawTextsUpTo(_)
RawTextsUpTo(n) ==
    IF n = 0 THEN {""}
    ELSE LET shorter == RawTextsUpTo(n - 1)
         IN  shorter \cup {t \o c : t \in shorter, c \in RawChars}

CleanTexts == RawTextsUpTo(MaxRaw) \cup
              {"Hello   World!  \n  How are   you?", "Price: 5 # each (approx.)"}

InitClean == UtilityRequest("clean_text", CleanTexts, {NoArgs})

CleanText == Return("clean_text", clean_text(text))

SpecClean == InitClean /\ [][CleanText]_vars

(***************************************************************************)
(* The API flows POST /analyze/pdf and POST /analyze/url.  args is the     *)
(* request with what the environment holds for it: the uploaded file, or   *)
(* the URL and its web page, and the topics the classifier gives the text. *)
(* pc is the handler's position; text and result hold the content dict     *)
(* once ingestion has returned it, result the response once it is built.   *)
(***************************************************************************)
\* an extracted text of exactly n >= 27 characters, whitespace-normalized
DocText(n) == "Experts say research helps " \o RepeatStr("y", n - 27)

Page(t) == [extracts |-> TRUE, text |-> t]
FailingPage == [extracts |-> FALSE, text |-> ""]

Pdf(pages, title) == [is_pdf |-> TRUE, pages |-> pages, title |-> title]
NotAPdf == [is_pdf |-> FALSE, pages |-> <<>>, title |-> ""]

PdfContents == {
    NotAPdf,
    Pdf(<<>>, ""),
    Pdf(<<FailingPage, Page("")>>, ""),
    Pdf(<<Page(DocText(PdfMinLen - 1))>>, ""),
    Pdf(<<Page("  " \o DocText(PdfMinLen - 2) \o "\n\n"), FailingPage>>, "A Title"),
    Pdf(<<Page(DocText(PdfMinLen))>>, "A Title"),
    Pdf(<<Page(DocText(60)), Page(""), Page(DocText(PdfMinLen - 61))>>, ""),
    Pdf(<<Page(DocText(PdfMinLen + 1) \o "   many (2020)")>>, "") }

Filenames == {"test.txt", "paper.pdf", "PAPER.PDF", "pdf", ".pdf", "notes.pdf.txt", ""}

FileSizes == {9, max_file_size, max_file_size + 1}

Uploads == [filename : Filenames, content : PdfContents, size : FileSizes,
            readable : BOOLEAN]

ArticleTexts == {"", DocText(ArticleMinLen), "  " \o DocText(ArticleMinLen - 1),
                 DocText(ArticleMinLen + 1)}

BodyTexts == {"", DocText(FallbackMinLen - 1),
              "  " \o DocText(FallbackMinLen - 2) \o "\n\n", DocText(FallbackMinLen)}

WebPages == [article_ok : BOOLEAN, article_text : ArticleTexts, article_title : {""},
             fetch_ok : BOOLEAN, body_text : BodyTexts, html_title : {" A page "}]

\* the environment of the three models during one request
ModelsBehave(summarizer, classifier, sentiment) ==
    [summarizer |-> summarizer, classifier |-> classifier, sentiment |-> sentiment,
     summary_text |-> "Experts say research helps.",
     labels |-> <<"Technology", "Science", "Education", "Business">>,
     label |-> "POSITIVE", score |-> 99]

\* all models work, or none can be built
ApiModels == {ModelsBehave(Works, Works, Works),
              ModelsBehave(LoadFails, LoadFails, LoadFails)}

ApiRequest(endpoint, arguments) ==
    /\ req = endpoint
    /\ args \in arguments
    /\ text = ""
    /\ topics = <<>>
    /\ pc = "received"
    /\ result = NoResult
    /\ hashSeed = 0
    /\ prev = NoCall
    /\ calls = <<>>
    /\ status = 0
    /\ model_manager = ModelManager
    /\ served = 1

InitPdf ==
    ApiRequest("analyze_pdf", [file : Uploads, ml : ApiModels])

InitUrl ==
    ApiRequest("analyze_url",
               [url : {"https://example.org/a"}, page : WebPages, ml : ApiModels])

\* the request ends with an HTTP error status
Fail(code) ==
    /\ status' = code
    /\ pc' = "done"

\* analyze_pdf: "Validate file type"
ValidateFileType ==
    /\ req = "analyze_pdf" /\ pc = "received"
    /\ IF ~endswith(Lower(args.file.filename), ".pdf")
       THEN Fail(PdfHandlerStatus(HTTPException(HTTP_400_BAD_REQUEST)))
       ELSE pc' = "read" /\ UNCHANGED status
    /\ UNCHANGED <<req, text, topics, result, hashSeed, prev, args, calls, model_manager, served>>

\* analyze_pdf: "Read file content"
ReadFile ==
    /\ req = "analyze_pdf" /\ pc = "read"
    /\ calls' = Append(calls, "file.read")
    /\ IF ~args.file.readable
       THEN Fail(PdfHandlerStatus(OtherException))
       ELSE pc' = "size" /\ UNCHANGED status
    /\ UNCHANGED <<req, text, topics, result, hashSeed, prev, args, model_manager, served>>

\* analyze_pdf: "Check file size"
CheckFileSize ==
    /\ req = "analyze_pdf" /\ pc = "size"
    /\ IF args.file.size > max_file_size
       THEN Fail(PdfHandlerStatus(HTTPException(HTTP_413_REQUEST_ENTITY_TOO_LARGE)))
       ELSE pc' = "parse" /\ UNCHANGED status
    /\ UNCHANGED <<req, text, topics, result, hashSeed, prev, args, calls, model_manager, served>>

\* the handler gets the outcome of its ingestion call: a ValueError ends the
\* request, a content dict goes on to the analysis
Ingested(content, code) ==
    IF content.raised # ""
    THEN Fail(code) /\ UNCHANGED <<text, result>>
    ELSE /\ text' = content.text
         /\ result' = content
         /\ pc' = "analyze"
         /\ UNCHANGED status

\* analyze_pdf: "Parse PDF"
ParsePdf ==
    /\ req = "analyze_pdf" /\ pc = "parse"
    /\ calls' = Append(calls, "pdf_parser.parse")
    /\ Ingested(parse(args.file.content, args.file.filename), PdfHandlerStatus(ValueError))
    /\ UNCHANGED <<req, topics, hashSeed, prev, args, model_manager, served>>

\* analyze_url: "Scrape URL"
ScrapeUrl ==
    /\ req = "analyze_url" /\ pc = "received"
    /\ calls' = Append(calls, "url_scraper.scrape")
    /\ Ingested(scrape(args.url, args.page), UrlHandlerStatus(ValueError))
    /\ UNCHANGED <<req, topics, hashSeed, prev, args, model_manager, served>>

\* _analyze_content after "ML Analysis": the critical analysis and the response
Respond(ml_results) ==
    /\ model_manager' = ml_results.models
    /\ topics' = ml_results.topics
    /\ result' = AnalysisResponse(result, ml_results,
                                  analyze(result.text, ml_results.topics, hashSeed))
    /\ status' = HTTP_200_OK
    /\ pc' = "done"

\* both handlers: "Perform analysis".  A pipeline built now is named by the
\* number of this request.
AnalyzeContent ==
    /\ req \in {"analyze_pdf", "analyze_url"} /\ pc = "analyze"
    /\ calls' = Append(calls, "_analyze_content")
    /\ Respond(DocumentAnalyzer_analyze(model_manager, result.text, args.ml, served))
    /\ UNCHANGED <<req, text, hashSeed, prev, args, served>>

InitApi == InitPdf \/ InitUrl

NextApi ==
    \/ ValidateFileType
    \/ ReadFile
    \/ CheckFileSize
    \/ ParsePdf
    \/ ScrapeUrl
    \/ AnalyzeContent

SpecApi == InitApi /\ [][NextApi]_vars

(***************************************************************************)
(* The running service: requests to GET /health and to the two analysis    *)
(* endpoints, one after the other, against the one ModelManager of the     *)
(* process.  The handlers are coroutines that never yield between their    *)
(* accesses to the manager, so requests do not interleave.                 *)
(***************************************************************************)
MaxRequests == 4    \* requests the service receives

\* main.py: the process has started, nothing is loaded
InitService ==
    /\ req = "startup"
    /\ args = NoArgs
    /\ text = ""
    /\ topics = <<>>
    /\ pc = "done"
    /\ result = NoResult
    /\ hashSeed = 0
    /\ prev = NoCall
    /\ calls = <<>>
    /\ status = 0
    /\ model_manager = ModelManager
    /\ served = 0

ServiceModels ==
    {ModelsBehave(Works, Works, Works),
     ModelsBehave(LoadFails, Works, Works),
     ModelsBehave(Works, LoadFails, Works),
     ModelsBehave(Works, Works, LoadFails),
     ModelsBehave(LoadFails, LoadFails, LoadFails),
     ModelsBehave(Works, Works, CallFails),
     ModelsBehave(CallFails, LoadFails, Works)}

ServicePage == [article_ok |-> TRUE, article_text |-> DocText(ArticleMinLen + 1),
                article_title |-> "", fetch_ok |-> TRUE, body_text |-> "",
                html_title |-> ""]

ServiceUpload == [filename |-> "paper.pdf", content |-> Pdf(<<Page("too short")>>, ""),
                  size |-> 9, readable |-> TRUE]

ServiceRequests ==
    [endpoint : {"health_check"}, args : {NoArgs}]
        \cup [endpoint : {"analyze_url"},
              args : [url : {"https://example.org/a"}, page : {ServicePage},
                      ml : ServiceModels]]
        \cup [endpoint : {"analyze_pdf"},
              args : [file : {ServiceUpload}, ml : {ModelsBehave(Works, Works, Works)}]]

\* the next request arrives once the last one is answered
Receive ==
    /\ pc = "done"
    /\ served < MaxRequests
    /\ \E request \in ServiceRequests :
          /\ req' = request.endpoint
          /\ args' = request.args
    /\ text' = ""
    /\ topics' = <<>>
    /\ pc' = "received"
    /\ result' = NoResult
    /\ calls' = <<>>
    /\ status' = 0
    /\ served' = served + 1
    /\ UNCHANGED <<hashSeed, prev, model_manager>>

\* GET /health
HealthCheck ==
    /\ req = "health_check" /\ pc = "received"
    /\ result' = [status |-> "healthy", models_loaded |-> is_ready(model_manager)]
    /\ status' = HTTP_200_OK
    /\ pc' = "done"
    /\ UNCHANGED <<req, text, topics, hashSeed, prev, args, calls, model_manager, served>>

NextService ==
    \/ Receive
    \/ HealthCheck
    \/ ValidateFileType
    \/ ReadFile
    \/ CheckFileSize
    \/ ParsePdf
    \/ ScrapeUrl
    \/ AnalyzeContent

SpecService == InitService /\ [][NextService]_vars

(***************************************************************************)
(* Properties.                                                             *)
(***************************************************************************)
\* the '.'-delimited units of the text, trimmed
Units(t) == [k \in 1..Len(SplitDot(t)) |-> Strip(SplitDot(t)[k])]

\* the unit s matches the j-th claim pattern somewhere
MatchesClaimPattern(s, j) == \E i \in 0..Len(s) : MatchAt(CLAIM_PATTERNS[j], s, i, TRUE)

\* C1: identify_unsupported_claims returns at most 5 entries; every entry is
\* a unit of the text, unchanged when it has at most 150 characters and cut
\* to its first 150 characters plus "..." otherwise, so no entry is longer
\* than 153 characters.
C1_ClaimsCapped ==
    Returned("identify_unsupported_claims") =>
        /\ Len(result) <= 5
        /\ \A j \in 1..Len(result) :
              /\ Len(result[j]) <= 153
              /\ \E k \in 1..Len(Units(text)) :
                    LET s == Units(text)[k]
                    IN  \/ Len(s) <= 150 /\ result[j] = s
                        \/ Len(s) > 150 /\ result[j] = SubSeq(s, 1, 150) \o "..."

\* more than 5 units qualify, 5 are returned, one of them cut to 153 characters
C1_Witness ==
    /\ Returned("identify_unsupported_claims")
    /\ Len(ClaimsFrom(SplitDot(text), 1)) > 5
    /\ Len(result) = 5
    /\ \E j \in 1..5 : Len(result[j]) = 153

\* the findings of the list xs that open with "Possible <name>: "
FindingsOf(xs, name) ==
    LET prefix == "Possible " \o name \o ": "
    IN  {j \in 1..Len(xs) : Len(xs[j]) >= Len(prefix) /\ SubSeq(xs[j], 1, Len(prefix)) = prefix}

FallacyNames == {"Appeal to Authority", "False Dichotomy", "Slippery Slope",
                 "Correlation vs Causation", "Hasty Generalization"}

\* C2: identify_logical_gaps returns at most 5 findings, at most 2 of them
\* for any one fallacy name.
C2_GapsCapped ==
    Returned("identify_logical_gaps") =>
        /\ Len(result) <= 5
        /\ \A name \in FallacyNames : Cardinality(FindingsOf(result, name)) <= 2

\* a fallacy pattern matches more than twice and exactly 2 findings name it
C2_Witness ==
    /\ Returned("identify_logical_gaps")
    /\ \E j \in 1..Len(FALLACY_PATTERNS) :
          /\ Len(FindIter(FALLACY_PATTERNS[j].re, text, TRUE)) > 2
          /\ Cardinality(FindingsOf(result, FALLACY_PATTERNS[j].name)) = 2

\* C3: assess_difficulty returns one of the three levels for every text and
\* raises no division error; a text without words has both averages 0 and no
\* indicator, so it is rated beginner.
C3_DifficultyTotal ==
    Returned("assess_difficulty") =>
        /\ result \in {"beginner", "intermediate", "advanced"}
        /\ (\A i \in 0..(Len(text) - 1) : At(text, i) \in SpaceSet) => result = "beginner"

\* the empty text has been rated
C3_Witness ==
    /\ Returned("assess_difficulty")
    /\ text = ""
    /\ result = "beginner"

\* C4: suggest_related_topics returns at most 5 entries, all different.
C4_RelatedDistinct ==
    Returned("suggest_related_topics") =>
        /\ Len(result) <= 5
        /\ \A i, j \in 1..Len(result) : i # j => result[i] # result[j]

\* a repeated topic whose entries include the keyword-derived "Research
\* Methodology", with more than 5 distinct candidates
C4_Witness ==
    /\ Returned("suggest_related_topics")
    /\ topics = <<"Science", "Science">>
    /\ "research" \in Elems(SplitWords(Lower(text)))
    /\ Cardinality(Elems(RelatedList(text, topics))) > 5
    /\ Len(result) = 5

\* the text has a '.'-delimited unit of more than 30 characters once trimmed
NonTrivial(t) == \E k \in 1..Len(Units(t)) : Len(Units(t)[k]) > 30

\* C5: generate_follow_up_questions returns at most 5 questions, and exactly
\* 5 when the text is non-trivial, whatever the topic list.
C5_FiveQuestions ==
    Returned("generate_follow_up_questions") =>
        /\ Len(result) <= 5
        /\ NonTrivial(text) => Len(result) = 5

\* a non-trivial text with no topics got exactly 5 questions
C5_Witness ==
    /\ Returned("generate_follow_up_questions")
    /\ NonTrivial(text)
    /\ topics = <<>>
    /\ Len(result) = 5

\* C6: two analyze calls with the same text and topics return the same report,
\* in any two runs and whatever was analyzed in between.
C6_Deterministic ==
    (Returned("analyze") /\ prev.seen /\ prev.text = text /\ prev.topics = topics)
        => result = prev.result

\* no claim pattern, fallacy pattern, structural trigger or keyword matches
NoPatternMatch(t) ==
    /\ \A k \in 1..Len(Units(t)) : \A j \in 1..Len(CLAIM_PATTERNS) :
          ~MatchesClaimPattern(Units(t)[k], j)
    /\ \A j \in 1..Len(FALLACY_PATTERNS) : ~Search(FALLACY_PATTERNS[j].re, t, TRUE)
    /\ ~Contains(Lower(t), "research") /\ ~Contains(Lower(t), "study")
    /\ ~Search(VagueRe, t, TRUE)
    /\ \A j \in 1..Len(keyword_topics) :
          keyword_topics[j].keyword \notin Elems(SplitWords(Lower(t)))

\* the first unit of more than 30 characters
FirstKeyUnit(t) ==
    Units(t)[CHOOSE k \in 1..Len(Units(t)) :
                 /\ Len(Units(t)[k]) > 30
                 /\ \A h \in 1..(k - 1) : Len(Units(t)[h]) <= 30]

\* C7 as stated: assess_difficulty always returns a level, and analyze, on a
\* text with no pattern match (the empty text included) and no topics, returns
\* empty claim, gap and related-topic lists, a non-empty summary and a
\* follow-up list made only of the fixed generic questions.
C7_Original ==
    /\ Returned("assess_difficulty") => result \in {"beginner", "intermediate", "advanced"}
    /\ (Returned("analyze") /\ NoPatternMatch(text) /\ topics = <<>>) =>
          /\ result.unsupported_claims = <<>>
          /\ result.logical_gaps = <<>>
          /\ result.related_topics = <<>>
          /\ result.critical_summary # ""
          /\ Elems(result.follow_up_questions) \subseteq Elems(GenericQuestions)

\* C7 (amended): as stated, except that the follow-up list is the four generic
\* questions only when no unit of the text exceeds 30 characters; otherwise
\* the question about the first such unit precedes them.  Every report has a
\* non-empty summary and lists within their caps.
C7_Total ==
    /\ Returned("assess_difficulty") => result \in {"beginner", "intermediate", "advanced"}
    /\ Returned("analyze") =>
          /\ result.critical_summary # ""
          /\ Len(result.unsupported_claims) <= 5 /\ Len(result.logical_gaps) <= 5
          /\ Len(result.follow_up_questions) <= 5 /\ Len(result.related_topics) <= 5
    /\ (Returned("analyze") /\ NoPatternMatch(text) /\ topics = <<>>) =>
          /\ result.unsupported_claims = <<>>
          /\ result.logical_gaps = <<>>
          /\ result.related_topics = <<>>
          /\ result.follow_up_questions =
                (IF NonTrivial(text)
                   THEN <<"What evidence supports the assertion that "
                            \o Lower(FirstKeyUnit(text)) \o "?">>
                   ELSE <<>>) \o GenericQuestions

\* the empty text with no topics has been analyzed
C7_Witness ==
    /\ Returned("analyze")
    /\ text = ""
    /\ topics = <<>>
    /\ result.follow_up_questions = GenericQuestions
    /\ result.related_topics = <<>>
    /\ result.critical_summary # ""

\* the positions of the units that qualify as claims: at least 20 characters
\* and some claim pattern matches
ClaimUnits(t) ==
    {k \in 1..Len(Units(t)) :
        /\ Len(Units(t)[k]) >= 20
        /\ \E j \in 1..Len(CLAIM_PATTERNS) : MatchesClaimPattern(Units(t)[k], j)}

\* the j-th smallest element of a set of numbers
Nth(S, j) == CHOOSE k \in S : Cardinality({h \in S : h < k}) = j - 1

\* C8: the result of identify_unsupported_claims is, in document order, one
\* entry for each of the first 5 qualifying units (cut to 150 characters plus
\* "..." when longer), however many patterns a unit matches.
C8_OnePerSentence ==
    Returned("identify_unsupported_claims") =>
        /\ Len(result) = Min(5, Cardinality(ClaimUnits(text)))
        /\ \A j \in 1..Len(result) :
              LET s == Units(text)[Nth(ClaimUnits(text), j)]
              IN  result[j] = IF Len(s) > 150 THEN SubSeq(s, 1, 150) \o "..." ELSE s

\* the one sentence "Experts say this will definitely work" matches two
\* patterns and gives a single entry
C8_Witness ==
    /\ Returned("identify_unsupported_claims")
    /\ text = "Experts say this will definitely work"
    /\ MatchesClaimPattern(text, 1) /\ MatchesClaimPattern(text, 4)
    /\ result = <<text>>

\* the number of fallacy findings: for each pattern, its matches up to 2
RECURSIVE NumFallacyFindings(_, _)
NumFallacyFindings(t, j) ==
    IF j > Len(FALLACY_PATTERNS) THEN 0
    ELSE Min(2, Len(FindIter(FALLACY_PATTERNS[j].re, t, TRUE))) + NumFallacyFindings(t, j + 1)

MentionsResearch(t) == Contains(Lower(t), "research")
HasCitation(t)      == Search(CitationRe, t, FALSE)

\* C9 as stated: a text that mentions research and has no citation always
\* gets the "no citations" finding; a text containing "(2020)" never does.
C9_Original ==
    Returned("identify_logical_gaps") =>
        /\ (MentionsResearch(text) /\ ~HasCitation(text)) => NoCitationsGap \in Elems(result)
        /\ Contains(text, "(2020)") => NoCitationsGap \notin Elems(result)

\* C9 (amended): a text that mentions research and has no citation gets the
\* "no citations" finding exactly when fewer than 5 fallacy findings precede
\* it (the list is cut to 5); a text containing "(2020)" never gets it.
C9_NoCitations ==
    Returned("identify_logical_gaps") =>
        /\ (MentionsResearch(text) /\ ~HasCitation(text)) =>
              (NoCitationsGap \in Elems(result) <=> NumFallacyFindings(text, 1) < 5)
        /\ Contains(text, "(2020)") => NoCitationsGap \notin Elems(result)

\* research without citation after 4 fallacy findings: the finding is the 5th
C9_Witness ==
    /\ Returned("identify_logical_gaps")
    /\ MentionsResearch(text) /\ ~HasCitation(text)
    /\ NumFallacyFindings(text, 1) = 4
    /\ result[5] = NoCitationsGap

\* every indicator word of the three levels
AllIndicators ==
    UNION {Elems(DIFFICULTY_INDICATORS[level]) : level \in Elems(Levels)}

\* a single short sentence with no indicator word: one '.', which ends the
\* text, and at least 1 and at most 15 words
SingleShortSentence(t) ==
    /\ Len(t) > 0 /\ At(t, Len(t) - 1) = "."
    /\ \A i \in 0..(Len(t) - 2) : At(t, i) # "."
    /\ Len(SplitWords(t)) \in 1..15
    /\ \A w \in AllIndicators : ~Contains(Lower(t), w)

\* the characters of the words of t, whitespace excluded
WordChars(t) == Cardinality({i \in 0..(Len(t) - 1) : At(t, i) \notin SpaceSet})

\* C10 as stated: a single short sentence with no indicator word, such as
\* "Short.", is rated beginner through the else branch (+2 to beginner).
C10_Original ==
    (Returned("assess_difficulty") /\ SingleShortSentence(text)) =>
        /\ result = "beginner"
        /\ DifficultyScores(text) = [beginner |-> 2, intermediate |-> 0, advanced |-> 0]

\* C10 (amended): such a sentence is rated beginner through the else branch
\* when its words average at most 5 characters, punctuation included;
\* "Short." is one word of 6 characters, takes the intermediate branch and is
\* rated intermediate.
C10_ShortSentence ==
    (Returned("assess_difficulty") /\ SingleShortSentence(text)) =>
        /\ WordChars(text) <= 5 * Len(SplitWords(text)) =>
              /\ result = "beginner"
              /\ DifficultyScores(text) = [beginner |-> 2, intermediate |-> 0, advanced |-> 0]
        /\ text = "Short." =>
              /\ result = "intermediate"
              /\ DifficultyScores(text) = [beginner |-> 0, intermediate |-> 2, advanced |-> 0]

\* the short sentence "Too short.", whose two words average 4.5 characters,
\* has been rated beginner
C10_Witness ==
    /\ Returned("assess_difficulty")
    /\ text = "Too short."
    /\ SingleShortSentence(text)
    /\ WordChars(text) <= 5 * Len(SplitWords(text))
    /\ result = "beginner"

\* the question relating the topics T1 and T2, as the claims word it
Relating(T1, T2) ==
    "What is the connection between " \o T1 \o " and " \o T2 \o " in this context?"

\* C11 as stated: with at least two topics, the third entry of the follow-up
\* list is the question relating the first two topics, for every text.
C11_Original ==
    (Returned("generate_follow_up_questions") /\ Len(topics) >= 2) =>
        /\ Len(result) >= 3
        /\ result[3] = Relating(topics[1], topics[2])

\* C11 (amended): with at least two topics, the question relating the first
\* two topics is the third entry when the text has a unit of more than 30
\* characters (the evidence question and the first-topic question precede it),
\* and the second entry otherwise, the third then being the first generic
\* question.
C11_ThirdEntry ==
    (Returned("generate_follow_up_questions") /\ Len(topics) >= 2) =>
        IF NonTrivial(text)
        THEN /\ Len(result) >= 3
             /\ result[3] = Relating(topics[1], topics[2])
        ELSE /\ Len(result) >= 3
             /\ result[2] = Relating(topics[1], topics[2])
             /\ result[3] = GenericQuestions[1]

\* a text with a long sentence and the topics Technology, Science: the third
\* entry relates Technology and Science
C11_Witness ==
    /\ Returned("generate_follow_up_questions")
    /\ topics = <<"Technology", "Science">>
    /\ NonTrivial(text)
    /\ result[3] = "What is the connection between Technology and Science in this context?"

\* the string s ends with the string suffix
EndsWith(s, suffix) ==
    Len(s) >= Len(suffix) /\ SubSeq(s, Len(s) - Len(suffix) + 1, Len(s)) = suffix

\* C13: truncate_text returns a text of at most max_length characters
\* unchanged; for a longer text the result has exactly max_length characters
\* and ends with the suffix, for every max_length >= 0, those smaller than
\* the suffix length included.
C13_Truncate ==
    Returned("truncate_text") =>
        IF Len(text) <= args.max_length
        THEN result = text
        ELSE Len(result) = args.max_length /\ EndsWith(result, args.suffix)

\* C14: the result of clean_text has no leading or trailing whitespace and no
\* two consecutive whitespace characters, also when special characters between
\* spaces are removed, and cleaning it again changes nothing.
C14_CleanNormalized ==
    Returned("clean_text") =>
        /\ result = "" \/ (At(result, 0) \notin SpaceSet /\ At(result, Len(result) - 1) \notin SpaceSet)
        /\ \A i \in 0..(Len(result) - 2) :
              ~(At(result, i) \in SpaceSet /\ At(result, i + 1) \in SpaceSet)
        /\ clean_text(result) = result

\* the fallacy names in their declared order
FallacyOrder == <<"Appeal to Authority", "False Dichotomy", "Slippery Slope",
                  "Correlation vs Causation", "Hasty Generalization">>

\* the place of a finding in the scan: the number of its fallacy, 6 for the
\* "no citations" finding, 7 for the "vague quantifiers" finding
GapRank(x) ==
    IF x = "Research mentioned but no citations provided" THEN 6
    ELSE IF x = "Vague quantifiers used without specific data" THEN 7
    ELSE CHOOSE j \in 1..5 :
             LET prefix == "Possible " \o FallacyOrder[j] \o ": "
             IN  Len(x) >= Len(prefix) /\ SubSeq(x, 1, Len(prefix)) = prefix

\* the findings of the fallacies from the j-th on, in declared order, each
\* with its first two matches in order of position
RECURSIVE ExpectedFallacyFindings(_, _)
ExpectedFallacyFindings(t, j) ==
    IF j > 5 THEN <<>>
    ELSE LET matches == FindIter(FALLACY_PATTERNS[j].re, t, TRUE)
         IN  [k \in 1..Min(2, Len(matches)) |-> FallacyFinding(FallacyOrder[j], t, matches[k])]
               \o ExpectedFallacyFindings(t, j + 1)

\* C15: the result of identify_logical_gaps is the first 5 elements of: the
\* fallacy findings in declared order (within a fallacy by match position),
\* then the "no citations" finding, then the "vague quantifiers" finding; no
\* structural finding precedes a fallacy finding, nor the vague-quantifier
\* finding the no-citations finding.
C15_GapOrder ==
    Returned("identify_logical_gaps") =>
        /\ result = Take(ExpectedFallacyFindings(text, 1)
                           \o (IF MissingCitations(text) THEN <<NoCitationsGap>> ELSE <<>>)
                           \o (IF VagueQuantifiers(text) THEN <<VagueGap>> ELSE <<>>), 5)
        /\ \A i, j \in 1..Len(result) : i < j => GapRank(result[i]) <= GapRank(result[j])
        /\ \A j \in 1..5 :
              LET matches == FindIter(FALLACY_PATTERNS[j].re, text, TRUE)
              IN  \A k \in 1..(Len(matches) - 1) : matches[k].s < matches[k + 1].s

\* findings of two fallacies, then the no-citations finding, then the
\* vague-quantifier finding
C15_Witness ==
    /\ Returned("identify_logical_gaps")
    /\ Len(result) >= 4
    /\ GapRank(result[1]) < GapRank(result[2])
    /\ GapRank(result[2]) < 6
    /\ result[Len(result) - 1] = NoCitationsGap
    /\ result[Len(result)] = VagueGap

\* the number of '.'-delimited segments of t
NumSegments(t) == Cardinality({i \in 0..(Len(t) - 1) : At(t, i) = "."}) + 1

\* the level that gets the complexity bonus, from the character and word
\* counts of t: average word length W/n, average sentence length n/k
BonusLevel(t) ==
    LET W == WordChars(t)
        n == Len(SplitWords(t))
        k == NumSegments(t)
    IN  IF (n > 0 /\ W > 6 * n) \/ n > 25 * k THEN "advanced"
        ELSE IF (n > 0 /\ W > 5 * n) \/ n > 15 * k THEN "intermediate"
        ELSE "beginner"

\* the number of places of the lowercased text t_lower where an indicator
\* word of the level, from the j-th on, occurs
RECURSIVE IndicatorHits(_, _, _)
IndicatorHits(t_lower, level, j) ==
    IF j > Len(DIFFICULTY_INDICATORS[level]) THEN 0
    ELSE LET w == DIFFICULTY_INDICATORS[level][j]
         IN  Cardinality({i \in 0..(Len(t_lower) - Len(w)) :
                             SubSeq(t_lower, i + 1, i + Len(w)) = w})
               + IndicatorHits(t_lower, level, j + 1)

IndicatorCount(t, level) == IndicatorHits(Lower(t), level, 1)

\* C16: assess_difficulty applies exactly one complexity bonus, by priority:
\* +3 to advanced if the average word length exceeds 6 or the average
\* sentence length 25, else +2 to intermediate if they exceed 5 or 15, else
\* +2 to beginner; each final tally is the level's indicator count plus its
\* bonus, and the three tallies sum to the indicator counts plus 2 or 3.
C16_OneBonus ==
    Returned("assess_difficulty") =>
        LET scores == DifficultyScores(text)
            bonus(level) == IF level # BonusLevel(text) THEN 0
                            ELSE IF level = "advanced" THEN 3 ELSE 2
            extra == (scores.beginner + scores.intermediate + scores.advanced)
                       - (IndicatorCount(text, "beginner") + IndicatorCount(text, "intermediate")
                            + IndicatorCount(text, "advanced"))
        IN  /\ \A level \in {"beginner", "intermediate", "advanced"} :
                  scores[level] = IndicatorCount(text, level) + bonus(level)
            /\ extra \in {2, 3}
            /\ scores[result] >= 2

\* a text of short words in one sentence of more than 25 words, with two
\* intermediate indicators: advanced gets +3 and wins with 3 against 2
C16_Witness ==
    /\ Returned("assess_difficulty")
    /\ Len(SplitWords(text)) > 25 * NumSegments(text)
    /\ WordChars(text) <= 5 * Len(SplitWords(text))
    /\ DifficultyScores(text) = [beginner |-> 0, intermediate |-> 2, advanced |-> 3]
    /\ result = "advanced"

\* the place of a level in the declared order beginner, intermediate, advanced
LevelRank(level) ==
    IF level = "beginner" THEN 1 ELSE IF level = "intermediate" THEN 2 ELSE 3

\* C17: assess_difficulty returns a level of maximal final tally, and among
\* the levels that tie for the maximum the first in the declared order
\* beginner, intermediate, advanced.
C17_TieBreak ==
    Returned("assess_difficulty") =>
        LET scores == DifficultyScores(text)
        IN  /\ result \in {"beginner", "intermediate", "advanced"}
            /\ \A level \in {"beginner", "intermediate", "advanced"} :
                  /\ scores[level] <= scores[result]
                  /\ LevelRank(level) < LevelRank(result) => scores[level] < scores[result]

\* intermediate and advanced tie for the maximum and intermediate is returned
C17_Witness ==
    /\ Returned("assess_difficulty")
    /\ DifficultyScores(text).intermediate = DifficultyScores(text).advanced
    /\ DifficultyScores(text).beginner < DifficultyScores(text).intermediate
    /\ result = "intermediate"

\* the decimal numerals of the counts 1..5
Numeral == <<"1", "2", "3", "4", "5">>

\* C18: the summary in the report of analyze is the single-space join, in
\* this order, of: the scrutiny sentence if claims or gaps were found, else
\* the well-reasoned sentence; the claims-count sentence iff there are claims;
\* the gaps-count sentence iff there are gaps; the counterargument sentence
\* iff neither "however" nor "although" occurs in the text; the no-citations
\* sentence iff the citation count is 0, or the limited-citations sentence
\* iff it is 1 or 2.  The counts cited are the lengths of the report's capped
\* lists and never exceed 5.
C18_SummaryComposition ==
    Returned("analyze") =>
        LET c == Len(result.unsupported_claims)
            g == Len(result.logical_gaps)
            n == CitationCount(text)
            balanced == Contains(Lower(text), "however") \/ Contains(Lower(text), "although")
            parts ==
                <<IF c > 0 \/ g > 0
                    THEN "This article presents several claims that warrant scrutiny."
                    ELSE "This article appears well-reasoned with supported arguments.">>
                \o (IF c > 0
                      THEN <<"There are " \o Numeral[c] \o " potentially unsupported claims "
                               \o "that would benefit from additional evidence or citations.">>
                      ELSE <<>>)
                \o (IF g > 0
                      THEN <<"The analysis identified " \o Numeral[g] \o " potential logical "
                               \o "issues or areas requiring more rigorous argumentation.">>
                      ELSE <<>>)
                \o (IF balanced THEN <<>>
                    ELSE <<"The article may lack counterarguments or alternative perspectives.">>)
                \o (IF n = 0 THEN <<"No academic citations were detected in the text.">>
                    ELSE IF n \in {1, 2} THEN <<"The article contains limited citations.">>
                    ELSE <<>>)
        IN  /\ c <= 5 /\ g <= 5
            /\ result.critical_summary = JoinSpace(parts)

\* one claim, one gap, "although" and one citation: scrutiny, both counts and
\* the limited-citations sentence
C18_Witness ==
    /\ Returned("analyze")
    /\ text = "Although some studies exist (2020), experts say otherwise."
    /\ Len(result.unsupported_claims) = 1
    /\ Len(result.logical_gaps) = 1
    /\ result.critical_summary =
          "This article presents several claims that warrant scrutiny. "
            \o "There are 1 potentially unsupported claims that would benefit from "
            \o "additional evidence or citations. "
            \o "The analysis identified 1 potential logical issues or areas requiring "
            \o "more rigorous argumentation. "
            \o "The article contains limited citations."

\* the fallacy matches that identify_logical_gaps reports, from the j-th
\* fallacy on: the first two of each pattern, with the fallacy's name
RECURSIVE ReportedMatches(_, _)
ReportedMatches(t, j) ==
    IF j > 5 THEN <<>>
    ELSE LET matches == FindIter(FALLACY_PATTERNS[j].re, t, TRUE)
         IN  [k \in 1..Min(2, Len(matches)) |->
                 [name |-> FallacyOrder[j], s |-> matches[k].s, e |-> matches[k].e]]
               \o ReportedMatches(t, j + 1)

\* the window of t around the match m: 50 characters before its start through
\* 100 characters after its end, clipped to the text
Window(t, m) ==
    LET lo == IF m.s - 50 < 0 THEN 0 ELSE m.s - 50
        hi == IF m.e + 100 > Len(t) THEN Len(t) ELSE m.e + 100
    IN  SubSeq(t, lo + 1, hi)

\* C19 as stated: the finding of each reported fallacy match quotes exactly
\* the window around the match, no character added or removed.
C19_Original ==
    Returned("identify_logical_gaps") =>
        LET reported == ReportedMatches(text, 1)
        IN  \A p \in 1..Min(5, Len(reported)) :
                result[p] = "Possible " \o reported[p].name \o ": '"
                              \o Window(text, reported[p]) \o "...'"

\* C19 (amended): the finding of each reported fallacy match quotes the
\* window around the match with its leading and trailing whitespace removed,
\* and nothing else changed.
C19_ContextWindow ==
    Returned("identify_logical_gaps") =>
        LET reported == ReportedMatches(text, 1)
        IN  \A p \in 1..Min(5, Len(reported)) :
                LET window == Window(text, reported[p])
                    quoted == Strip(window)
                IN  /\ result[p] = "Possible " \o reported[p].name \o ": '" \o quoted \o "...'"
                    /\ quoted = "" \/ (At(quoted, 0) \notin SpaceSet
                                         /\ At(quoted, Len(quoted) - 1) \notin SpaceSet)
                    /\ \E a \in 0..Len(window) :
                          /\ SubSeq(window, a + 1, a + Len(quoted)) = quoted
                          /\ \A i \in 0..(Len(window) - 1) :
                                (i < a \/ i >= a + Len(quoted)) => At(window, i) \in SpaceSet

\* a reported match more than 50 characters into the text and more than 100
\* characters before its end, whose window begins or ends with whitespace
C19_Witness ==
    /\ Returned("identify_logical_gaps")
    /\ \E p \in 1..Min(5, Len(ReportedMatches(text, 1))) :
          LET m == ReportedMatches(text, 1)[p]
          IN  /\ m.s > 50
              /\ m.e + 100 < Len(text)
              /\ Strip(Window(text, m)) # Window(text, m)
              /\ result[p] = "Possible " \o m.name \o ": '" \o Strip(Window(text, m)) \o "...'"

\* ".pdf" in every mix of upper and lower case
PdfExtensions == {"." \o p \o d \o f : p \in {"p", "P"}, d \in {"d", "D"}, f \in {"f", "F"}}

NamedPdf(filename) == \E extension \in PdfExtensions : EndsWith(filename, extension)

\* C12: an upload to POST /api/analyze/pdf whose filename does not end in
\* ".pdf", in whatever case, is rejected with status 400 and nothing else;
\* its content is never read, size-checked, parsed or analyzed.
C12_WrongFileType ==
    (req = "analyze_pdf" /\ ~NamedPdf(args.file.filename)) =>
        /\ calls = <<>>
        /\ pc \in {"received", "done"}
        /\ text = "" /\ result = NoResult
        /\ pc = "done" => status = 400

\* a rejected upload that is also unreadable, too large and not a PDF, under
\* a name that holds ".pdf" but does not end in it
C12_Witness ==
    /\ req = "analyze_pdf" /\ pc = "done" /\ status = 400
    /\ args.file.filename = "notes.pdf.txt"
    /\ ~args.file.readable
    /\ args.file.size > max_file_size
    /\ ~args.file.content.is_pdf

\* the ingestion call of the flow, and whether the handler has made it
IngestionCall == IF req = "analyze_pdf" THEN "pdf_parser.parse" ELSE "url_scraper.scrape"

Called(name) == \E i \in 1..Len(calls) : calls[i] = name

\* what the extractors yield for the request: the joined, whitespace-normalized
\* page texts of a PDF; the article text and the normalized body text of a page
PdfText(file) == JoinSpace(SplitWords(JoinNewline(TextParts(file.pages, 1))))

ExtractedTexts ==
    IF req = "analyze_pdf" THEN {PdfText(args.file.content)}
    ELSE {args.page.article_text, JoinSpace(SplitWords(args.page.body_text))}

\* ingestion succeeds with the text t: an extractor yields t and t is long
\* enough for that extractor
IngestionGives(t) ==
    IF req = "analyze_pdf"
    THEN /\ args.file.content.is_pdf /\ Len(args.file.content.pages) > 0
         /\ t = PdfText(args.file.content)
         /\ Len(t) >= 100
    ELSE \/ args.page.article_ok /\ t = args.page.article_text /\ Len(t) > 100
         \/ /\ ~(args.page.article_ok /\ Len(args.page.article_text) > 100)
            /\ args.page.fetch_ok
            /\ t = JoinSpace(SplitWords(args.page.body_text))
            /\ Len(t) >= 100

IngestionFails == \A t \in ExtractedTexts : ~IngestionGives(t)

\* C20: in both flows _analyze_content runs only directly after a successful
\* ingestion call, on a text of at least 100 characters (more than 100 from
\* the first extractor of the URL scraper); a failed ingestion ends the
\* request with status 422, never 200 or 500, and without analysis.
C20_AnalysisAfterIngestion ==
    req \in {"analyze_pdf", "analyze_url"} =>
        /\ (pc = "analyze" \/ Called("_analyze_content")) =>
              /\ Called(IngestionCall)
              /\ IngestionGives(text)
              /\ Len(text) >= 100
        /\ \A i \in 1..Len(calls) :
              calls[i] = "_analyze_content" => i > 1 /\ calls[i - 1] = IngestionCall
        /\ status = 200 <=> Called("_analyze_content")
        /\ (Called(IngestionCall) /\ IngestionFails) =>
              /\ pc = "done"
              /\ status = 422
              /\ ~Called("_analyze_content")
              /\ text = "" /\ result = NoResult

\* a PDF whose pages give exactly 100 characters once normalized is analyzed
C20_Witness ==
    /\ req = "analyze_pdf" /\ pc = "done" /\ status = 200
    /\ Len(args.file.content.pages) = 3
    /\ Len(text) = 100
    /\ calls = <<"file.read", "pdf_parser.parse", "_analyze_content">>
    /\ result.word_count = Len(SplitWords(text))

\* the three handles are loaded
AllLoaded(models) == \A handle \in Handles : models[handle] # None

\* what the environment of this request says of the model behind a handle
BehaviourOf(handle) ==
    IF handle = "_summarizer" THEN args.ml.summarizer
    ELSE IF handle = "_classifier" THEN args.ml.classifier
    ELSE args.ml.sentiment

\* the step is the analysis of an analysis request
AnalysisStep ==
    /\ req \in {"analyze_pdf", "analyze_url"}
    /\ pc = "analyze" /\ pc' = "done"
    /\ calls' = Append(calls, "_analyze_content")

\* the response carries the fallback result of the model behind the handle
FallbackResult(handle, response) ==
    IF handle = "_summarizer"
    THEN response.summary = JoinDot(Take(SplitDot(text), 3)) \o "."
    ELSE IF handle = "_classifier"
    THEN response.topics = <<"General">>
    ELSE response.sentiment = "neutral" /\ response.sentiment_score = 50

C21_Step ==
    /\ \A handle \in Handles :
          \* loaded at most once, never unloaded or reloaded
          /\ model_manager[handle] # None =>
                model_manager'[handle] = model_manager[handle]
          \* loaded only by an analysis
          /\ model_manager'[handle] # model_manager[handle] => AnalysisStep
          \* a failed load leaves the handle unloaded, the request succeeds
          \* with the fallback result
          /\ (AnalysisStep /\ model_manager[handle] = None
                /\ BehaviourOf(handle) = LoadFails) =>
                /\ model_manager'[handle] = None
                /\ status' = 200
                /\ FallbackResult(handle, result')
    /\ AllLoaded(model_manager) => AllLoaded(model_manager')
    /\ (req = "health_check" /\ pc = "received") =>
          /\ model_manager' = model_manager
          /\ pc' = "done" /\ status' = 200
          /\ result'.models_loaded = AllLoaded(model_manager)
          /\ result'.models_loaded = is_ready(model_manager')

\* C21: over any sequence of health and analysis requests each model handle
\* is loaded at most once and then kept as it is; is_ready, which GET /health
\* reports, is true exactly when all three are loaded: false when the service
\* starts, changed by no health check, true forever once true; a failed load
\* leaves the handle unloaded and the request answers with the fallback.
C21_LazyLoading ==
    /\ served = 0 => ~is_ready(model_manager) /\ model_manager = ModelManager
    /\ [][C21_Step]_vars

\* a second analysis answered with the fallback topics because the classifier
\* could again not be built, while the summarizer built by an earlier request
\* is still the one in use
C21_Witness ==
    /\ req = "analyze_url" /\ pc = "done" /\ status = 200
    /\ served >= 2
    /\ args.ml.classifier = LoadFails
    /\ model_manager["_classifier"] = None
    /\ model_manager["_summarizer"] \in 1..(served - 1)
    /\ model_manager["_sentiment"] # None
    /\ result.topics = <<"General">>
    /\ ~is_ready(model_manager)

=============================================================================
